---- MODULE Spec2Model ----
(***************************************************************************)
(* Model of the browser-automation workflow engine of src/src/handler.rs:  *)
(* the two retry-wrapped handlers get_payment_page_handler and             *)
(* get_companies_list_handler, the search and payment workflows they run   *)
(* and the browser sessions they acquire and release.                      *)
(*                                                                         *)
(* Every request is a process.  One attempt of a request is one call of    *)
(* the closure handed to tryhard::retry_fn; the closure is straight-line   *)
(* code, so it is modelled as the sequence of page steps it performs (its  *)
(* plan) and a position in it.  A step is one or more await points, in     *)
(* program order: fallible WebDriver commands and infallible sleeps; at    *)
(* each of them the task returns to the event loop.                        *)
(*                                                                         *)
(* The handlers that drive no browser await functions (extract_data,       *)
(* extract_corporation_data, request_registry) that are modelled with      *)
(* their own await points; the same functions are also run on their own.   *)
(***************************************************************************)
EXTENDS Integers, Sequences, FiniteSets, TLC

VARIABLES
    reqs,      \* the requests in flight (ids)
    params,    \* params[r]: the deserialized request body and the handler it went to
    pc,        \* pc[r]: where the handler of r stands
    ip,        \* ip[r]: number of steps of the current plan already performed
    attempt,   \* attempt[r]: number of closure invocations started so far
    remaining, \* remaining[r]: tryhard attempts_remaining
    delay,     \* delay[r]: the ExponentialBackoff strategy's next delay (seconds)
    waits,     \* waits[r]: the delays the retry driver slept, in order
    driver,    \* driver[r]: the closure's local `driver` (index into sessions[r]) or NoDriver
    sessions,  \* sessions[r]: the browser sessions r has created, in creation order
    acquireErrs, \* acquireErrs[r]: number of get_chrome_driver calls that returned Err
    mark,      \* mark[r]: Len(sessions[r]) when the current attempt began
    steps,     \* steps[r]: page interactions of the current attempt, in order
    everPaid,  \* everPaid[r]: r performed a step of the payment workflow, in any attempt
    result,    \* result[r]: the handler's return value, NoResult while running
    faults,    \* remaining budget of environment failures
    company_links, \* company_links[r]: size of the closure's local `company_links`
    inflight,  \* inflight[r]: WebDriver commands of r sent and not yet answered
    header,    \* header[r]: the Authorization header of the request, None if it has none
    submits,   \* submits[r]: clicks on the payment button by r, over all its attempts
    sub,       \* sub[r]: awaits of the step at ip[r] already completed
    email_inputs, \* email_inputs[r]: size of the local `email_inputs`
    call       \* the function called, on its own or by a handler: arguments, locals, return value

vars == <<reqs, params, pc, ip, attempt, remaining, delay, waits, driver,
          sessions, acquireErrs, mark, steps, everPaid, result, faults,
          company_links, inflight, header, submits, sub, email_inputs, call>>

-----------------------------------------------------------------------------
(* Bounds of the model *)

\* number of concurrent requests of the concurrent specification
MaxRequests == 2
\* failures the environment may inject in the concurrent specification
MaxFaults == 1
\* most company links a result listing shows
MaxLinks == 2
\* failures the environment may inject into a request that came in through
\* the router
MaxInboundFaults == 1
\* longest time one poll of a locator wait takes, in seconds
MaxPollTime == 2
\* most pages a listing has, most rows a page shows, largest record cap
MaxPages == 2
MaxRows == 2
MaxCap == 3
\* longest line of a listing row, in characters
MaxLineLen == 4
\* most rows of the annual-filings section, most list items of a row
MaxFilingRows == 2
MaxItems == 2
\* most div.col-sm-12 sections a detail page has
MaxSections == 10
\* most document summaries the backend lists for a corporation
MaxSummaries == 2
\* most email inputs a product page shows
MaxEmailInputs == 2

-----------------------------------------------------------------------------
(* Program constants *)

\* .retries(10)
MaxRetries == 10
\* .max_delay(Duration::from_secs(10))
MaxDelay == 10
\* .exponential_backoff(Duration::from_secs(1))
InitialDelay == 1

NoDriver == 0
NoResult == [tag |-> "Running"]
None == "None"
\* CONFIG.token (its default)
Token == "secret"
\* no call of DateInput::try_from under way
NoCall == [arg |-> <<>>, ret |-> [tag |-> "NoCall"]]

\* caps.add_chrome_arg("--user-data-dir=/tmp/user-data")
UserDataDir == "/tmp/user-data"

-----------------------------------------------------------------------------
(* Request bodies *)

\* serde_json::to_string(&register_type_key).trim_matches('"')
RegisterTypeJson(k) ==
    CASE k = None -> "null"
      [] k = "All" -> "-- All Registers --"
      [] k = "BusinessNames" -> "Business Names"
      [] OTHER -> k

\* serde_json::to_string(&status_key).trim_matches('"')
StatusKeyJson(k) ==
    CASE k = "All" -> "-- All Statuses --"
      [] OTHER -> k

\* serde_json::to_string(&search_operator).trim_matches('"')
SearchOperatorJson(k) ==
    CASE k = "FromOrOn" -> "From or On"
      [] OTHER -> k

\* SearchBusinessRegistryParams values the model draws requests from
SearchBusinessRegistryParams ==
    { [query_word |-> "Acme", register_type_key |-> "Corporations",
       business_type_selection |-> None, status_key |-> "Active",
       date_input |-> None, search_operator |-> None, end_date |-> None],
      [query_word |-> "Acme", register_type_key |-> "All",
       business_type_selection |-> "-- Any type --", status_key |-> None,
       date_input |-> "January 1, 2021", search_operator |-> "Between",
       end_date |-> "March 2, 2021"] }

\* search_product is a free String: the three products the portal knows and
\* one string that equals none of them
SearchProducts ==
    {"Profile Report", "Document Copies", "Certificate of Status", "Profile"}

\* the bodies of POST /api/payment-page and POST /api/search-companies
RequestBusinessProfileReportParams ==
    [handler : {"get_payment_page_handler"},
     search_business_params : SearchBusinessRegistryParams,
     selected_company : {"Acme Ltd"},
     search_product : SearchProducts,
     email : {"a@example.com"}]

CompaniesListParams ==
    [handler : {"get_companies_list_handler"},
     search_business_params : SearchBusinessRegistryParams,
     selected_company : {None},
     search_product : {None},
     email : {None}]

Requests == RequestBusinessProfileReportParams \cup CompaniesListParams

\* the bodies the concurrent specification draws from: one of each handler
ConcurrentRequests ==
    {b \in Requests :
        /\ b.search_business_params.search_operator = None
        /\ b.search_product \in {None, "Certificate of Status"}}

-----------------------------------------------------------------------------
(* Plans: the page steps a workflow function performs, in program order *)

St(name, arg) == [step |-> name, arg |-> arg]

\* every optional step is performed, present or not
Opt_Always(field, st) == <<st>>

\* the step is present iff the Option field is Some
Opt(field, st) == IF field = None THEN <<>> ELSE <<st>>

\* the end date is typed whenever the criteria have one
EndDateBranch_WhenPresent(p) ==
    IF p.end_date # None
    THEN <<St("EndDateEntered", p.end_date), St("EndDateEnterKey", "Enter")>>
    ELSE <<>>

\* `if let Some(SearchOperator::Between) = search_operator { .. }`: the end
\* date (unwrap_or_default: "" if there is none), then Key::Enter
EndDateBranch(p) ==
    IF p.search_operator = "Between"
    THEN <<St("EndDateEntered",
              IF p.end_date = None THEN "" ELSE p.end_date),
           St("EndDateEnterKey", "Enter")>>
    ELSE <<>>

\* goto_search_result_page, up to the click on the search button
SearchSubmitPlan(p) ==
    <<St("Landing", "goto"),
      St("QueryEntered", p.query_word),
      St("AdvancedPanelOpen", "Advanced"),
      St("RegisterTypeSelected", RegisterTypeJson(p.register_type_key))>>
    \o Opt(p.business_type_selection,
           St("BusinessTypeSelected", p.business_type_selection))
    \o Opt(p.status_key, St("StatusSelected", StatusKeyJson(p.status_key)))
    \o Opt(p.date_input, St("DateEntered", p.date_input))
    \o Opt(p.search_operator,
           St("OperatorSelected", SearchOperatorJson(p.search_operator)))
    \o EndDateBranch(p)
    \o <<St("Submitted", "click")>>

\* goto_search_result_page after the no-results probe found nothing
SearchResultPlan ==
    <<St("PageSizeNormalized", "200"), St("ResultUrl", "current_url")>>

\* the whole of goto_search_result_page; the probe is a step of its own
goto_search_result_page(p) ==
    SearchSubmitPlan(p) \o <<St("NoResultsProbe", "appSearchNoResults")>>
    \o SearchResultPlan

\* `if search_product == "Profile Report" { ... }`
ProfileReportPath(param) ==
    IF param.search_product = "Profile Report"
    THEN <<St("CurrentReport", "Current Report"),
           St("EmailFilled", param.email),
           St("PathSubmitted", "Submit")>>
    ELSE <<>>

\* the block written as the else of the Profile Report block
DocumentCopiesPath_Else(param) ==
    IF param.search_product # "Profile Report"
    THEN <<St("SelectAllDocuments", "Select all Documents"),
           St("EmailFilled", param.email),
           St("PathSubmitted", "Request Documents")>>
    ELSE <<>>

\* `if search_product == "Document Copies" { ... }`
DocumentCopiesPath(param) ==
    IF param.search_product = "Document Copies"
    THEN <<St("SelectAllDocuments", "Select all Documents"),
           St("EmailFilled", param.email),
           St("PathSubmitted", "Request Documents")>>
    ELSE <<>>

\* `if search_product == "Certificate of Status" { ... }`
CertificateOfStatusPath(param) ==
    IF param.search_product = "Certificate of Status"
    THEN <<St("EmailFilled", param.email),
           St("PathSubmitted", "Submit")>>
    ELSE <<>>

\* page5 of goto_payment_page: the three consecutive `if` blocks
ProductSpecificBranch(param) ==
    ProfileReportPath(param) \o DocumentCopiesPath(param)
    \o CertificateOfStatusPath(param)

\* the payment button is clicked before the CVV is typed
PaymentForm_SubmitBeforeCvd ==
    <<St("CardOwnerEntered", "card_name"),
      St("CardNumberEntered", "card_number"),
      St("ExpMonthEntered", "card_month"),
      St("ExpYearEntered", "card_year"),
      St("PaymentSubmitted", "submitButton"),
      St("CvdEntered", "card_cvv")>>

\* page7 of goto_payment_page: the card fields, each from the CONFIG field
\* named, then the click on the payment button
PaymentForm ==
    <<St("CardOwnerEntered", "card_name"),
      St("CardNumberEntered", "card_number"),
      St("ExpMonthEntered", "card_month"),
      St("ExpYearEntered", "card_year"),
      St("CvdEntered", "card_cvv"),
      St("PaymentSubmitted", "submitButton")>>

\* goto_payment_page
goto_payment_page(param) ==
    <<St("CompanySelected", param.selected_company),
      St("SearchProductsPanelOpen", "Request Search Products"),
      St("SourceMinistrySelected", "from the Ministry"),
      St("ProductTypeSelected", param.search_product),
      St("Continued", "Continue")>>
    \o ProductSpecificBranch(param)
    \o <<St("CreditCardChosen", "Credit Card"),
         St("ReviewConfirmed", "button[1]"),
         St("PaymentPageOpened", "submit_btn")>>
    \o PaymentForm

PaymentStepNames == {"CompanySelected", "SearchProductsPanelOpen",
    "SourceMinistrySelected", "ProductTypeSelected", "Continued",
    "CurrentReport", "SelectAllDocuments", "EmailFilled", "PathSubmitted",
    "CreditCardChosen", "ReviewConfirmed", "PaymentPageOpened",
    "CardOwnerEntered", "CardNumberEntered", "ExpMonthEntered",
    "ExpYearEntered", "CvdEntered", "PaymentSubmitted"}

\* the closure of get_payment_page_handler after goto_search_result_page
PaymentHandlerPlan(param) ==
    goto_payment_page(param)
    \o <<St("CurrentUrl", "current_url"), St("Quit", "quit")>>

\* the closure of get_companies_list_handler after goto_search_result_page
CompaniesHandlerPlan ==
    <<St("CompanyLinks", "all"), St("LinkTexts", "join_all"),
      St("CurrentUrl", "current_url"), St("Quit", "quit")>>

\* the closure of test_handler after get_chrome_driver
TestHandlerPlan ==
    <<St("Goto", "https://example.com"), St("Title", "title"),
      St("Quit", "quit")>>

\* the steps of one closure invocation after get_chrome_driver, in order
AttemptPlan(param) ==
    IF param.handler = "test_handler" THEN TestHandlerPlan
    ELSE goto_search_result_page(param.search_business_params)
         \o (IF param.handler = "get_payment_page_handler"
             THEN PaymentHandlerPlan(param)
             ELSE CompaniesHandlerPlan)

SearchStepNames == {"Landing", "QueryEntered", "AdvancedPanelOpen",
    "RegisterTypeSelected", "BusinessTypeSelected", "StatusSelected",
    "DateEntered", "OperatorSelected", "EndDateEntered", "EndDateEnterKey",
    "Submitted", "PageSizeNormalized", "ResultUrl"}

HandlerStepNames == {"CompanyLinks", "CurrentUrl", "Goto", "Title"}

-----------------------------------------------------------------------------
(* State helpers *)

Min(a, b) == IF a < b THEN a ELSE b

Running(r) == r \in reqs /\ pc[r] = "run" /\ ip[r] < Len(AttemptPlan(params[r]))

\* the step the closure of r is about to perform
NextStep(r) == AttemptPlan(params[r])[ip[r] + 1]

\* the awaits of the step `name`, in program order: the WebDriver commands
\* (a locator wait with .first() or .all() is one await) and the sleeps;
\* inputs is the number of email inputs the page showed
Awaits(name, inputs) ==
    CASE name = "Landing" -> <<"goto", "add_cookie", "current_url">>
      [] name \in {"QueryEntered", "DateEntered", "CardOwnerEntered",
                   "CardNumberEntered", "ExpMonthEntered", "ExpYearEntered",
                   "CvdEntered"} -> <<"first", "send_keys">>
      [] name = "EndDateEntered" -> <<"sleep", "first", "send_keys">>
      [] name = "EndDateEnterKey" -> <<"send_keys">>
      [] name \in {"RegisterTypeSelected", "Submitted", "PageSizeNormalized",
                   "CurrentReport", "SelectAllDocuments", "CreditCardChosen",
                   "PaymentPageOpened"} -> <<"first", "click", "sleep">>
      [] name = "EmailFilled" ->
             <<"all">> \o [i \in 1..inputs |-> "send_keys"]
      [] name \in {"ResultUrl", "CurrentUrl"} -> <<"current_url">>
      [] name = "CompanyLinks" -> <<"all">>
      [] name = "NoResultsProbe" -> <<"first">>
      [] name = "LinkTexts" -> <<"join_all">>
      [] name = "Quit" -> <<"quit">>
      [] name = "Goto" -> <<"goto">>
      [] name = "Title" -> <<"title">>
      [] OTHER -> <<"first", "click">>

\* the await the closure of r is suspended at
NextAwait(r) ==
    Awaits(NextStep(r).step, email_inputs[r])[sub[r] + 1]

\* the entry a performed step leaves in the attempt's log
Done(r) == [step |-> NextStep(r).step, arg |-> NextStep(r).arg,
            session |-> driver[r]]

\* the entry the no-results probe leaves: what it saw
Probed(r, seen) == [step |-> "NoResultsProbe", arg |-> seen,
                    session |-> driver[r]]

\* a `?`-propagated error: which attempt, at which step
Error(r, what) == [attempt |-> attempt[r], step |-> what]

\* the delay slept is the stored delay, without the ceiling
BackoffDelay_Uncapped(r) == delay[r]

\* ExponentialBackoff::delay capped by max_delay: the time tryhard sleeps
BackoffDelay(r) == Min(delay[r], MaxDelay)

\* the session handed out is the one of the previous attempt, when there is one
NewSession_Reused(r) == IF Len(sessions[r]) = 0 THEN 1 ELSE Len(sessions[r])

\* the index of the session WebDriver::new creates for r: a new one
NewSession(r) == Len(sessions[r]) + 1

-----------------------------------------------------------------------------
(* The retry driver: tryhard::retry_fn(..).retries(10).max_delay(10 s)      *)
(* .exponential_backoff(1 s)                                                *)

\* the next attempt picks up where the failed one stopped, on its session
InvokeClosure_Resume(r) ==
    /\ pc' = [pc EXCEPT ![r] = IF driver[r] = NoDriver THEN "acquire" ELSE "run"]
    /\ attempt' = [attempt EXCEPT ![r] = @ + 1]
    /\ mark' = [mark EXCEPT ![r] = Len(sessions[r])]
    /\ UNCHANGED <<ip, driver, steps, company_links, inflight, sub,
                   email_inputs>>

\* tryhard calls the closure: a new future, with no local bound yet
InvokeClosure(r) ==
    /\ pc' = [pc EXCEPT ![r] = "acquire"]
    /\ attempt' = [attempt EXCEPT ![r] = @ + 1]
    /\ ip' = [ip EXCEPT ![r] = 0]
    /\ driver' = [driver EXCEPT ![r] = NoDriver]
    /\ mark' = [mark EXCEPT ![r] = Len(sessions[r])]
    /\ steps' = [steps EXCEPT ![r] = <<>>]
    /\ company_links' = [company_links EXCEPT ![r] = 0]
    /\ inflight' = [inflight EXCEPT ![r] = 0]
    /\ sub' = [sub EXCEPT ![r] = 0]
    /\ email_inputs' = [email_inputs EXCEPT ![r] = 0]

\* the closure's future resolved to Err(err): retry while attempts remain,
\* else hand err to the caller
Retry(r, err) ==
    IF remaining[r] = 0
    THEN /\ pc' = [pc EXCEPT ![r] = "done"]
         /\ result' = [result EXCEPT ![r] = [tag |-> "Err", error |-> err]]
         /\ UNCHANGED <<remaining, delay, waits>>
    ELSE /\ pc' = [pc EXCEPT ![r] = "backoff"]
         /\ remaining' = [remaining EXCEPT ![r] = @ - 1]
         /\ waits' = [waits EXCEPT ![r] = Append(@, BackoffDelay(r))]
         /\ delay' = [delay EXCEPT ![r] = 2 * @]
         /\ UNCHANGED result

\* the driver takes Ok(response) but arms the backoff timer all the same
Return_ThenRetry(r, status) ==
    /\ pc' = [pc EXCEPT ![r] = IF remaining[r] = 0 THEN "done" ELSE "backoff"]
    /\ result' = [result EXCEPT ![r] =
           [tag |-> "Ok", status |-> status, attempt |-> attempt[r]]]
    /\ UNCHANGED <<remaining, delay, waits>>

\* the closure's future resolved to Ok(response): the driver returns it
Return(r, status) ==
    /\ pc' = [pc EXCEPT ![r] = "done"]
    /\ result' = [result EXCEPT ![r] =
           [tag |-> "Ok", status |-> status, attempt |-> attempt[r]]]
    /\ UNCHANGED <<remaining, delay, waits>>

\* an environment failure is injected
Fault == faults > 0 /\ faults' = faults - 1

\* first poll of the RetryFuture
Start(r) ==
    /\ r \in reqs /\ pc[r] = "start"
    /\ InvokeClosure(r)
    /\ UNCHANGED <<reqs, params, remaining, delay, waits, sessions, everPaid,
                   result, faults, acquireErrs, header, call,
                   submits>>

\* the backoff timer fired
Backoff(r) ==
    /\ r \in reqs /\ pc[r] = "backoff"
    /\ InvokeClosure(r)
    /\ UNCHANGED <<reqs, params, remaining, delay, waits, sessions, everPaid,
                   result, faults, acquireErrs, header, call,
                   submits>>

-----------------------------------------------------------------------------
(* The closure body *)

\* `let driver = get_chrome_driver().await?;` returned Ok
get_chrome_driver_Ok(r) ==
    /\ r \in reqs /\ pc[r] = "acquire"
    /\ LET d == NewSession(r) IN
       /\ driver' = [driver EXCEPT ![r] = d]
       /\ sessions' = [sessions EXCEPT ![r] =
              IF d > Len(@)
              THEN Append(@, [status |-> "live", user_data_dir |-> UserDataDir])
              ELSE @]
    /\ pc' = [pc EXCEPT ![r] = "run"]
    /\ UNCHANGED <<reqs, params, ip, attempt, remaining, delay, waits, mark,
                   steps, everPaid, result, faults, acquireErrs,
                   company_links, inflight, header, call,
                   submits, sub, email_inputs>>

\* `get_chrome_driver().await?` returned Err
get_chrome_driver_Err(r) ==
    /\ r \in reqs /\ pc[r] = "acquire"
    /\ Fault
    /\ Retry(r, Error(r, "get_chrome_driver"))
    /\ acquireErrs' = [acquireErrs EXCEPT ![r] = @ + 1]
    /\ UNCHANGED <<reqs, params, ip, attempt, driver, sessions, mark, steps,
                   everPaid,
                   company_links, inflight, header, call,
                   submits, sub, email_inputs>>

\* a step performed: logged, and the closure moves on
Advance(r) ==
    /\ steps' = [steps EXCEPT ![r] = Append(@, Done(r))]
    /\ ip' = [ip EXCEPT ![r] = @ + 1]
    /\ sub' = [sub EXCEPT ![r] = 0]
    /\ everPaid' = [everPaid EXCEPT ![r] =
           @ \/ NextStep(r).step \in PaymentStepNames]
    /\ submits' = [submits EXCEPT ![r] =
           IF NextStep(r).step = "PaymentSubmitted" THEN @ + 1 ELSE @]

\* the await r is suspended at completed: the step is performed when it
\* was the last of the step; `.all()` of the email inputs yields as many
\* as the page shows, none included
AwaitOk(r) ==
    \E inputs \in 0..MaxEmailInputs :
        /\ inputs = email_inputs[r] \/ NextAwait(r) = "all"
        /\ email_inputs' = [email_inputs EXCEPT ![r] = inputs]
        /\ IF sub[r] + 1 = Len(Awaits(NextStep(r).step, inputs))
           THEN Advance(r)
           ELSE /\ sub' = [sub EXCEPT ![r] = @ + 1]
                /\ everPaid' = [everPaid EXCEPT ![r] =
                       @ \/ NextStep(r).step \in PaymentStepNames]
                /\ UNCHANGED <<steps, ip, submits>>

\* the await r is suspended at is a WebDriver command, which may answer
\* Err; a sleep cannot
Fallible(r) == NextAwait(r) # "sleep"

\* a click on the payment button that answered Err may have reached the
\* page or not
ClickErr(r) ==
    \E k \in 0..1 :
        /\ k = 0 \/ (NextStep(r).step = "PaymentSubmitted"
                        /\ NextAwait(r) = "click")
        /\ submits' = [submits EXCEPT ![r] = @ + k]

\* an await of a step of goto_search_result_page completed
SearchStepOk(r) ==
    /\ Running(r) /\ NextStep(r).step \in SearchStepNames
    /\ AwaitOk(r)
    /\ UNCHANGED <<reqs, params, pc, attempt, remaining, delay, waits, driver,
                   sessions, mark, result, faults, acquireErrs,
                   company_links, inflight, header, call>>

\* a command of goto_search_result_page answered Err: `?` ends the closure
SearchStepErr(r) ==
    /\ Running(r) /\ NextStep(r).step \in SearchStepNames
    /\ Fallible(r)
    /\ Fault
    /\ Retry(r, Error(r, NextStep(r).step))
    /\ UNCHANGED <<reqs, params, ip, attempt, driver, sessions, mark, steps,
                   everPaid, acquireErrs,
                   company_links, inflight, header, call,
                   submits, sub, email_inputs>>

\* the marker is found but the function goes on to the page-size control
NoResultsFound_FallThrough(r) ==
    /\ Running(r) /\ NextStep(r).step = "NoResultsProbe"
    /\ steps' = [steps EXCEPT ![r] = Append(@, Probed(r, "found"))]
    /\ ip' = [ip EXCEPT ![r] = @ + 1]
    /\ UNCHANGED <<reqs, params, pc, attempt, remaining, delay, waits, driver,
                   sessions, mark, everPaid, result, faults, acquireErrs,
                   company_links, inflight, header, call,
                   submits, sub, email_inputs>>

\* the marker is found and the handler reports it as an error
NoResultsFound_AsError(r) ==
    /\ Running(r) /\ NextStep(r).step = "NoResultsProbe"
    /\ steps' = [steps EXCEPT ![r] = Append(@, Probed(r, "found"))]
    /\ ip' = [ip EXCEPT ![r] = @ + 1]
    /\ Retry(r, Error(r, "NoResults"))
    /\ UNCHANGED <<reqs, params, attempt, driver, sessions, mark, everPaid,
                   faults, acquireErrs,
                   company_links, inflight, header, call,
                   submits, sub, email_inputs>>

\* the probe for #appSearchNoResults found the marker: Ok(None), and the
\* handler returns NOT_FOUND
NoResultsFound(r) ==
    /\ Running(r) /\ NextStep(r).step = "NoResultsProbe"
    /\ steps' = [steps EXCEPT ![r] = Append(@, Probed(r, "found"))]
    /\ ip' = [ip EXCEPT ![r] = @ + 1]
    /\ Return(r, 404)
    /\ UNCHANGED <<reqs, params, attempt, driver, sessions, mark, everPaid,
                   faults, acquireErrs,
                   company_links, inflight, header, call,
                   submits, sub, email_inputs>>

\* the probe ended in Err (timeout or any other error): results are listed
NoResultsAbsent(r) ==
    /\ Running(r) /\ NextStep(r).step = "NoResultsProbe"
    /\ steps' = [steps EXCEPT ![r] = Append(@, Probed(r, "absent"))]
    /\ ip' = [ip EXCEPT ![r] = @ + 1]
    /\ UNCHANGED <<reqs, params, pc, attempt, remaining, delay, waits, driver,
                   sessions, mark, everPaid, result, faults, acquireErrs,
                   company_links, inflight, header, call,
                   submits, sub, email_inputs>>

\* an await of a step of goto_payment_page completed
PaymentStepOk(r) ==
    /\ Running(r) /\ NextStep(r).step \in PaymentStepNames
    /\ AwaitOk(r)
    /\ UNCHANGED <<reqs, params, pc, attempt, remaining, delay, waits, driver,
                   sessions, mark, result, faults, acquireErrs,
                   company_links, inflight, header, call>>

\* a failed payment step answers with what the attempt has got so far
PaymentStepErr_Partial(r) ==
    /\ Running(r) /\ NextStep(r).step \in PaymentStepNames
    /\ Fallible(r)
    /\ Fault
    /\ Return(r, 200)
    /\ ClickErr(r)
    /\ UNCHANGED <<reqs, params, ip, attempt, driver, sessions, mark, steps,
                   everPaid, acquireErrs,
                   company_links, inflight, header, call,
                   sub, email_inputs>>

\* a command of goto_payment_page answered Err
PaymentStepErr(r) ==
    /\ Running(r) /\ NextStep(r).step \in PaymentStepNames
    /\ Fallible(r)
    /\ Fault
    /\ Retry(r, Error(r, NextStep(r).step))
    /\ ClickErr(r)
    /\ UNCHANGED <<reqs, params, ip, attempt, driver, sessions, mark, steps,
                   everPaid, acquireErrs,
                   company_links, inflight, header, call,
                   sub, email_inputs>>

\* a command of a handler's closure succeeded: driver.current_url(), the
\* query for the company links, driver.goto() or driver.title();
\* `.all()` yields as many links as the listing shows, none included
HandlerStepOk(r) ==
    /\ Running(r) /\ NextStep(r).step \in HandlerStepNames
    /\ Advance(r)
    /\ IF NextStep(r).step = "CompanyLinks"
       THEN \E n \in 0..MaxLinks :
                company_links' = [company_links EXCEPT ![r] = n]
       ELSE UNCHANGED company_links
    /\ UNCHANGED <<reqs, params, pc, attempt, remaining, delay, waits, driver,
                   sessions, mark, result, faults, acquireErrs, inflight,
                   header, call, email_inputs>>

\* a command of a handler's closure answered Err
HandlerStepErr(r) ==
    /\ Running(r) /\ NextStep(r).step \in HandlerStepNames
    /\ Fault
    /\ Retry(r, Error(r, NextStep(r).step))
    /\ UNCHANGED <<reqs, params, ip, attempt, driver, sessions, mark, steps,
                   everPaid, acquireErrs,
                   company_links, inflight, header, call,
                   submits, sub, email_inputs>>

\* first poll of join_all: it polls every link.text() future in turn, and
\* each sends its command to the session without waiting for the others
LinkTextsIssue(r) ==
    /\ Running(r) /\ NextStep(r).step = "LinkTexts"
    /\ pc' = [pc EXCEPT ![r] = "join_all"]
    /\ inflight' = [inflight EXCEPT ![r] = company_links[r]]
    /\ UNCHANGED <<reqs, params, ip, attempt, remaining, delay, waits, driver,
                   sessions, mark, steps, everPaid, result, faults,
                   acquireErrs, company_links, header, call,
                   submits, sub, email_inputs>>

\* the session answered one of the text commands
LinkTextAnswered(r) ==
    /\ pc[r] = "join_all" /\ inflight[r] > 0
    /\ inflight' = [inflight EXCEPT ![r] = @ - 1]
    /\ UNCHANGED <<reqs, params, pc, ip, attempt, remaining, delay, waits,
                   driver, sessions, mark, steps, everPaid, result, faults,
                   acquireErrs, company_links, header, call,
                   submits, sub, email_inputs>>

\* join_all is ready and every text is Ok: company_names is collected
LinkTextsOk(r) ==
    /\ pc[r] = "join_all" /\ inflight[r] = 0
    /\ pc' = [pc EXCEPT ![r] = "run"]
    /\ Advance(r)
    /\ UNCHANGED <<reqs, params, attempt, remaining, delay, waits, driver,
                   sessions, mark, result, faults, acquireErrs,
                   company_links, inflight, header, call, email_inputs>>

\* join_all is ready and a text is Err: `x.unwrap()` panics, the handler's
\* task dies
LinkTextsPanic(r) ==
    /\ pc[r] = "join_all" /\ inflight[r] = 0 /\ company_links[r] > 0
    /\ Fault
    /\ pc' = [pc EXCEPT ![r] = "panicked"]
    /\ UNCHANGED <<reqs, params, ip, attempt, remaining, delay, waits, driver,
                   sessions, mark, steps, everPaid, result, acquireErrs,
                   company_links, inflight, header, call,
                   submits, sub, email_inputs>>

\* `driver.quit().await?` succeeded, and the closure returns Ok((OK, json))
QuitOk(r) ==
    /\ Running(r) /\ NextStep(r).step = "Quit"
    /\ sessions' = [sessions EXCEPT ![r][driver[r]].status = "quit"]
    /\ steps' = [steps EXCEPT ![r] = Append(@, Done(r))]
    /\ ip' = [ip EXCEPT ![r] = @ + 1]
    /\ Return(r, 200)
    /\ UNCHANGED <<reqs, params, attempt, driver, mark, everPaid, faults,
                   acquireErrs,
                   company_links, inflight, header, call,
                   submits, sub, email_inputs>>

\* `driver.quit().await?` failed
QuitErr(r) ==
    /\ Running(r) /\ NextStep(r).step = "Quit"
    /\ Fault
    /\ Retry(r, Error(r, "Quit"))
    /\ UNCHANGED <<reqs, params, ip, attempt, driver, sessions, mark, steps,
                   everPaid, acquireErrs,
                   company_links, inflight, header, call,
                   submits, sub, email_inputs>>

-----------------------------------------------------------------------------
(* Specifications *)

\* the requests rs were accepted by the router, none polled yet
InitWith(rs, bodies, budget) ==
    /\ reqs = rs
    /\ params \in [rs -> bodies]
    /\ pc = [r \in rs |-> "start"]
    /\ ip = [r \in rs |-> 0]
    /\ attempt = [r \in rs |-> 0]
    /\ remaining = [r \in rs |-> MaxRetries]
    /\ delay = [r \in rs |-> InitialDelay]
    /\ waits = [r \in rs |-> <<>>]
    /\ driver = [r \in rs |-> NoDriver]
    /\ sessions = [r \in rs |-> <<>>]
    /\ acquireErrs = [r \in rs |-> 0]
    /\ mark = [r \in rs |-> 0]
    /\ steps = [r \in rs |-> <<>>]
    /\ everPaid = [r \in rs |-> FALSE]
    /\ result = [r \in rs |-> NoResult]
    /\ faults = budget
    /\ company_links = [r \in rs |-> 0]
    /\ inflight = [r \in rs |-> 0]
    /\ header = [r \in rs |-> Token]
    /\ submits = [r \in rs |-> 0]
    /\ sub = [r \in rs |-> 0]
    /\ email_inputs = [r \in rs |-> 0]
    /\ call = NoCall

\* one request; every attempt may fail
Init == InitWith({1}, Requests, MaxRetries + 1)

\* MaxRequests concurrent requests; at most MaxFaults failures in all
InitConc == InitWith(1..MaxRequests, ConcurrentRequests, MaxFaults)

Next ==
    \E r \in reqs :
        \/ Start(r)
        \/ Backoff(r)
        \/ get_chrome_driver_Ok(r)
        \/ get_chrome_driver_Err(r)
        \/ SearchStepOk(r)
        \/ SearchStepErr(r)
        \/ NoResultsFound(r)
        \/ NoResultsAbsent(r)
        \/ PaymentStepOk(r)
        \/ PaymentStepErr(r)
        \/ HandlerStepOk(r)
        \/ HandlerStepErr(r)
        \/ LinkTextsIssue(r)
        \/ LinkTextAnswered(r)
        \/ LinkTextsOk(r)
        \/ LinkTextsPanic(r)
        \/ QuitOk(r)
        \/ QuitErr(r)

Spec == Init /\ [][Next]_vars

SpecConc == InitConc /\ [][Next]_vars

-----------------------------------------------------------------------------
(* Vocabulary of the properties *)

\* r performed the step `name` in its current attempt
Did(r, name) == \E i \in DOMAIN steps[r] : steps[r][i].step = name

\* position of the first occurrence of `name` in the current attempt's log
\* (0 when absent)
PosOf(r, name) ==
    IF Did(r, name)
    THEN CHOOSE i \in DOMAIN steps[r] :
            /\ steps[r][i].step = name
            /\ \A j \in 1..(i - 1) : steps[r][j].step # name
    ELSE 0

\* number of times r performed `name` in its current attempt
Count(r, name) == Cardinality({i \in DOMAIN steps[r] : steps[r][i].step = name})

\* the search of the current attempt of r found the no-results marker
NoResultsSeen(r) ==
    \E i \in DOMAIN steps[r] :
        steps[r][i].step = "NoResultsProbe" /\ steps[r][i].arg = "found"

\* the sessions of r whose browser is still running
Live(r) == {i \in DOMAIN sessions[r] : sessions[r][i].status = "live"}

IsPayment(r) == params[r].handler = "get_payment_page_handler"

Returned(r) == pc[r] = "done"

-----------------------------------------------------------------------------
(* C1 *)

\* C1: when a request returns, no session acquired during it is still
\* unreleased: every session it created has been quit, on the success path,
\* on the NoResults path and after an error of a workflow step.
C1_AllSessionsReleased ==
    \A r \in reqs : Returned(r) => Live(r) = {}

-----------------------------------------------------------------------------
(* C2 *)

\* C2: when every attempt fails, the driver has run the attempt exactly 10
\* times in total when it returns, so exactly 10 sessions were acquired, and
\* the error it returns is that of the last attempt.
C2_TenAttemptsThenError ==
    \A r \in reqs :
        (Returned(r) /\ result[r].tag = "Err") =>
            /\ attempt[r] = 10
            /\ Len(sessions[r]) = 10
            /\ result[r].error.attempt = attempt[r]

-----------------------------------------------------------------------------
(* C3 *)

\* C3 as stated: when attempt k (1 <= k <= 10) is the first to succeed,
\* the driver returns its result after exactly k attempts and exactly k
\* sessions have been acquired.
C3_ExactlyKSessions ==
    \A r \in reqs :
        (result[r].tag = "Ok" /\ attempt[r] <= 10) =>
            /\ result[r].attempt = attempt[r]
            /\ Len(sessions[r]) = attempt[r]

\* C3 amended: the attempt that first succeeds, attempt k, ends the
\* request: the response is that attempt's, exactly k attempts were started
\* and k - 1 delays slept, one session was acquired per attempt whose call
\* of get_chrome_driver succeeded (k less the calls that failed, the last
\* of them in attempt k), and once the response is there no further attempt
\* starts, no session is acquired and no step runs.
C3_ReturnsAfterKAttempts ==
    [][\A r \in reqs :
        /\ result'[r].tag = "Ok" =>
            /\ pc'[r] = "done"
            /\ result'[r].attempt = attempt'[r]
            /\ Len(waits'[r]) = attempt'[r] - 1
            /\ Len(sessions'[r]) = attempt'[r] - acquireErrs'[r]
            /\ Len(sessions'[r]) > mark'[r]
        /\ result[r].tag = "Ok" =>
            /\ attempt'[r] = attempt[r]
            /\ sessions'[r] = sessions[r]
            /\ steps'[r] = steps[r]
            /\ result'[r] = result[r]]_vars

\* a request whose first attempt got no session, whose second failed at a
\* step and whose third succeeded: three attempts, two sessions
C3_Witness ==
    \E r \in reqs :
        /\ Returned(r) /\ result[r].tag = "Ok" /\ result[r].status = 200
        /\ attempt[r] = 3 /\ acquireErrs[r] = 1
        /\ Len(sessions[r]) = 2

-----------------------------------------------------------------------------
(* C4 *)

\* C4 as stated: in an attempt whose search found the no-results marker the
\* page size is never normalized, and no step of the payment workflow is ever
\* executed in that request.
C4_NoPaymentInRequest ==
    \A r \in reqs :
        NoResultsSeen(r) =>
            /\ ~Did(r, "PageSizeNormalized")
            /\ ~everPaid[r]

\* C4 amended: in an attempt whose search found the no-results marker, the
\* page size is never normalized and no step of the payment workflow is
\* executed, in that attempt or at any later time of the request (steps of
\* the payment workflow may have run in earlier, failed attempts).
C4_NoResultsShortCircuits ==
    \A r \in reqs :
        NoResultsSeen(r) =>
            /\ steps[r][Len(steps[r])].step = "NoResultsProbe"
            /\ \A i \in DOMAIN steps[r] :
                   steps[r][i].step \notin PaymentStepNames \cup {"PageSizeNormalized"}
            /\ Returned(r)

\* a payment request answered "no results" after an earlier attempt of it
\* had already run steps of the payment workflow
C4_Witness ==
    \E r \in reqs :
        /\ IsPayment(r) /\ NoResultsSeen(r) /\ Returned(r)
        /\ everPaid[r]

-----------------------------------------------------------------------------
(* C5 *)

\* C5: every attempt works on a session of its own: every page interaction
\* of the current attempt went to a session that did not exist when the
\* attempt began, and the workflow never runs without such a session.
C5_FreshSessionPerAttempt ==
    \A r \in reqs :
        /\ \A i \in DOMAIN steps[r] :
               /\ steps[r][i].session > mark[r]
               /\ steps[r][i].session \in DOMAIN sessions[r]
        /\ pc[r] = "run" => driver[r] > mark[r]

\* a later attempt at work on the page while sessions of earlier attempts exist
C5_Witness ==
    \E r \in reqs :
        /\ attempt[r] >= 3 /\ mark[r] >= 2
        /\ Did(r, "QueryEntered")

-----------------------------------------------------------------------------
(* C7 *)

\* C7: NoResults is not an error: when the search of attempt k reports no
\* results the request is over at once, with the not-found response of
\* attempt k; no delay was slept after attempt k and no retry was consumed.
C7_NoResultsReturnsAtOnce ==
    \A r \in reqs :
        NoResultsSeen(r) =>
            /\ Returned(r)
            /\ result[r] = [tag |-> "Ok", status |-> 404, attempt |-> attempt[r]]
            /\ Len(waits[r]) = attempt[r] - 1
            /\ remaining[r] = MaxRetries - (attempt[r] - 1)

\* no results on the second attempt, after one failed attempt
C7_Witness ==
    \E r \in reqs :
        /\ NoResultsSeen(r) /\ attempt[r] = 2
        /\ result[r].tag = "Ok" /\ result[r].status = 404

-----------------------------------------------------------------------------
(* C6 *)

\* the step taken is a failure that hit request r
TookFault(r) ==
    /\ faults' < faults
    /\ \A q \in reqs \ {r} :
           <<pc[q], ip[q], remaining[q], steps[q]>>' =
           <<pc[q], ip[q], remaining[q], steps[q]>>

\* C6: in a payment request, an error at session acquisition or at any
\* step ends the attempt there and then, the failed step is not run again;
\* while retries remain the driver waits and the next attempt begins with
\* no session, at session acquisition; and the steps of every attempt are
\* the steps of the whole search-then-payment sequence from Landing on, in
\* program order, none skipped: no attempt resumes mid-flow.
C6_ErrorAbortsAndRestarts ==
    [][\A r \in reqs : IsPayment(r) =>
        /\ TookFault(r) =>
            /\ pc[r] \in {"acquire", "run"}
            /\ pc'[r] = IF remaining[r] > 0 THEN "backoff" ELSE "done"
            /\ steps'[r] = steps[r]
            /\ ip'[r] = ip[r]
        /\ (pc[r] = "backoff" /\ pc'[r] # "backoff") =>
            /\ pc'[r] = "acquire"
            /\ driver'[r] = NoDriver
            /\ ip'[r] = 0
            /\ steps'[r] = <<>>
        /\ Len(steps'[r]) = ip'[r]
        /\ \A i \in DOMAIN steps'[r] :
               steps'[r][i].step = AttemptPlan(params'[r])[i].step]_vars

\* an attempt that failed inside the payment workflow, and the next attempt
\* back at the Landing step on a session of its own
C6_Witness ==
    \E r \in reqs :
        /\ IsPayment(r) /\ attempt[r] = 2 /\ everPaid[r]
        /\ pc[r] = "run" /\ ip[r] = 1
        /\ steps[r][1].step = "Landing" /\ steps[r][1].session = 2

-----------------------------------------------------------------------------
(* C8 *)

\* C8: no two live sessions, of different requests or of successive
\* attempts of one request, use the same profile directory.
C8_PrivateProfileDirectory ==
    \A r1, r2 \in reqs :
        \A i \in Live(r1), j \in Live(r2) :
            <<r1, i>> # <<r2, j>> =>
                sessions[r1][i].user_data_dir # sessions[r2][j].user_data_dir

-----------------------------------------------------------------------------
(* C9 *)

\* C9: the branch of the payment workflow follows the product: Profile
\* Report selects Current Report and never Select all Documents, Document
\* Copies selects Select all Documents and never Current Report,
\* Certificate of Status selects neither and goes from Continue straight to
\* the email inputs and Submit; at most one path runs in an attempt.
C9_ProductSpecificBranch ==
    \A r \in reqs : IsPayment(r) =>
        LET product == params[r].search_product
            submit == steps[r][PosOf(r, "PathSubmitted")]
        IN
        /\ Count(r, "EmailFilled") <= 1 /\ Count(r, "PathSubmitted") <= 1
        /\ product = "Profile Report" =>
            /\ ~Did(r, "SelectAllDocuments")
            /\ Did(r, "EmailFilled") =>
                   PosOf(r, "CurrentReport") = PosOf(r, "EmailFilled") - 1
            /\ Did(r, "PathSubmitted") => submit.arg = "Submit"
        /\ product = "Document Copies" =>
            /\ ~Did(r, "CurrentReport")
            /\ Did(r, "EmailFilled") =>
                   PosOf(r, "SelectAllDocuments") = PosOf(r, "EmailFilled") - 1
            /\ Did(r, "PathSubmitted") => submit.arg = "Request Documents"
        /\ product = "Certificate of Status" =>
            /\ ~Did(r, "CurrentReport") /\ ~Did(r, "SelectAllDocuments")
            /\ Did(r, "EmailFilled") =>
                   PosOf(r, "Continued") = PosOf(r, "EmailFilled") - 1
            /\ Did(r, "PathSubmitted") =>
                /\ submit.arg = "Submit"
                /\ PosOf(r, "PathSubmitted") = PosOf(r, "EmailFilled") + 1

\* a Certificate of Status request past its branch
C9_Witness ==
    \E r \in reqs :
        /\ IsPayment(r) /\ params[r].search_product = "Certificate of Status"
        /\ Did(r, "PathSubmitted") /\ Did(r, "CreditCardChosen")

-----------------------------------------------------------------------------
(* C10 *)

\* C10: an attempt of any accepted payment request that has selected the
\* Credit Card option has before that run exactly one product path: filled
\* the email inputs and clicked the path's submit action.
C10_PathBeforeCreditCard ==
    \A r \in reqs : IsPayment(r) =>
        (Did(r, "CreditCardChosen") =>
            /\ Count(r, "PathSubmitted") = 1
            /\ Count(r, "EmailFilled") = 1
            /\ PosOf(r, "EmailFilled") < PosOf(r, "PathSubmitted")
            /\ PosOf(r, "PathSubmitted") < PosOf(r, "CreditCardChosen"))

-----------------------------------------------------------------------------
(* C11 *)

\* the steps every payment attempt performs, in the order of the claim;
\* PaymentFormFilled is the five card fields
PaymentOrder ==
    <<"CompanySelected", "SearchProductsPanelOpen", "SourceMinistrySelected",
      "ProductTypeSelected", "Continued", "CreditCardChosen",
      "ReviewConfirmed", "PaymentPageOpened", "CardOwnerEntered",
      "CardNumberEntered", "ExpMonthEntered", "ExpYearEntered", "CvdEntered",
      "PaymentSubmitted">>

\* the steps of the ProductSpecificBranch
BranchStepNames ==
    {"CurrentReport", "SelectAllDocuments", "EmailFilled", "PathSubmitted"}

\* C11: in every payment attempt the steps run in the fixed order
\* CompanySelected .. PaymentSubmitted, each at most once and only after
\* the one before it succeeded, the steps of the product branch between
\* Continued and CreditCardChosen; the payment button is clicked only after
\* cardholder name, card number, expiry month, expiry year and CVV were
\* typed, in that order, each from its configuration field.
C11_PaymentStepOrder ==
    \A r \in reqs : IsPayment(r) =>
        /\ \A j \in DOMAIN PaymentOrder :
               /\ Count(r, PaymentOrder[j]) <= 1
               /\ (j > 1 /\ Did(r, PaymentOrder[j])) =>
                      /\ Did(r, PaymentOrder[j - 1])
                      /\ PosOf(r, PaymentOrder[j - 1]) < PosOf(r, PaymentOrder[j])
        /\ \A b \in BranchStepNames :
               Did(r, b) =>
                   /\ Did(r, "Continued")
                   /\ PosOf(r, "Continued") < PosOf(r, b)
                   /\ Did(r, "CreditCardChosen") =>
                          PosOf(r, b) < PosOf(r, "CreditCardChosen")
        /\ Did(r, "PaymentSubmitted") =>
               LET n == PosOf(r, "PaymentSubmitted") IN
               /\ n > 5
               /\ [i \in 1..5 |-> [step |-> steps[r][n - 6 + i].step,
                                   arg |-> steps[r][n - 6 + i].arg]]
                      = <<St("CardOwnerEntered", "card_name"),
                          St("CardNumberEntered", "card_number"),
                          St("ExpMonthEntered", "card_month"),
                          St("ExpYearEntered", "card_year"),
                          St("CvdEntered", "card_cvv")>>

\* a Document Copies attempt that clicked the payment button
C11_Witness ==
    \E r \in reqs :
        /\ IsPayment(r) /\ params[r].search_product = "Document Copies"
        /\ Did(r, "PaymentSubmitted")

-----------------------------------------------------------------------------
(* C17 *)

\* C17: the i-th delay a request waited is min(2^(i-1), 10) seconds, so the
\* delays start at 1 s, double, never decrease and never exceed 10 s; one
\* delay is waited after each failed attempt that is followed by another
\* attempt, and none after the last attempt or after a successful one.
C17_ExponentialBackoffCapped ==
    \A r \in reqs :
        /\ \A i \in DOMAIN waits[r] :
               /\ waits[r][i] = Min(2 ^ (i - 1), MaxDelay)
               /\ waits[r][i] <= MaxDelay
               /\ i > 1 => waits[r][i - 1] <= waits[r][i]
        /\ Len(waits[r]) = IF pc[r] = "backoff" THEN attempt[r]
                           ELSE IF attempt[r] = 0 THEN 0
                           ELSE attempt[r] - 1

\* a request that failed every attempt: ten delays, the fourth 8 s, the
\* fifth and the last 10 s, and no delay after the eleventh attempt
C17_Witness ==
    \E r \in reqs :
        /\ pc[r] = "done" /\ result[r].tag = "Err"
        /\ Len(waits[r]) = MaxRetries
        /\ waits[r][4] = 8 /\ waits[r][5] = MaxDelay
        /\ waits[r][MaxRetries] = MaxDelay

-----------------------------------------------------------------------------
(* C19 *)

\* the request got the success payload: Ok((StatusCode::OK, Json(..)))
Succeeded(r) ==
    pc[r] = "done" /\ result[r].tag = "Ok" /\ result[r].status = 200

\* C19: a request returns the success payload only from an attempt that ran
\* its whole workflow (to PaymentSubmitted for the payment request, to the
\* listing with the page size set and the links read for the search
\* request); every step behind the payload ran in that one attempt, on the
\* session that attempt acquired: failed attempts contribute nothing.
C19_NoPartialResult ==
    \A r \in reqs : Succeeded(r) =>
        LET plan == AttemptPlan(params[r]) IN
        /\ result[r].attempt = attempt[r]
        /\ Len(steps[r]) = Len(plan)
        /\ \A i \in DOMAIN steps[r] :
               /\ steps[r][i].step = plan[i].step
               /\ steps[r][i].session = driver[r]
        /\ driver[r] > mark[r]
        /\ Did(r, "PageSizeNormalized") /\ Did(r, "CurrentUrl")
        /\ IF IsPayment(r) THEN Did(r, "PaymentSubmitted")
           ELSE Did(r, "ResultUrl") /\ Did(r, "LinkTexts")

\* a payment request that succeeded in its third attempt, after one attempt
\* failed before and one attempt failed after acquiring a session
C19_Witness ==
    \E r \in reqs :
        /\ Succeeded(r) /\ IsPayment(r)
        /\ attempt[r] = 3 /\ Len(sessions[r]) = 2

-----------------------------------------------------------------------------
(* C18 *)

\* C18: within one attempt the page interactions are strictly sequential:
\* at no time are two commands in flight against the session of a request,
\* the reading of the company links' texts included.
C18_OneCommandInFlight ==
    \A r \in reqs : inflight[r] <= 1

-----------------------------------------------------------------------------
(* DateInput: a String is the sequence of its characters *)

\* [A-Z]
Upper ==
    {"A", "B", "C", "D", "E", "F", "G", "H", "I", "J", "K", "L", "M",
     "N", "O", "P", "Q", "R", "S", "T", "U", "V", "W", "X", "Y", "Z"}

\* [a-z]
Lower ==
    {"a", "b", "c", "d", "e", "f", "g", "h", "i", "j", "k", "l", "m",
     "n", "o", "p", "q", "r", "s", "t", "u", "v", "w", "x", "y", "z"}

\* \d of the regex crate is Unicode-aware: the decimal digits of every
\* script; "U+0663" stands for ARABIC-INDIC DIGIT THREE
Digit == {"0", "1", "2", "3", "4", "5", "6", "7", "8", "9", "U+0663"}

\* the repetition `+` has no upper limit
Unbounded == -1

\* one item of a regex: a character class and how often it repeats
Rep(cls, min, max) == [cls |-> cls, min |-> min, max |-> max]

\* the day may have three digits
DatePattern_ThreeDigitDay ==
    <<Rep(Upper, 1, 1), Rep(Lower, 1, Unbounded), Rep({" "}, 1, 1),
      Rep(Digit, 1, 3), Rep({","}, 1, 1), Rep({" "}, 1, 1),
      Rep(Digit, 4, 4)>>

\* ([A-Z][a-z]+) (\d{1,2}), (\d{4})
DatePattern ==
    <<Rep(Upper, 1, 1), Rep(Lower, 1, Unbounded), Rep({" "}, 1, 1),
      Rep(Digit, 1, 2), Rep({","}, 1, 1), Rep({" "}, 1, 1),
      Rep(Digit, 4, 4)>>

\* the whole of s matches the items of pat one after the other
RECURSIVE Matches(_, _)
Matches(pat, s) ==
    IF pat = <<>> THEN s = <<>>
    ELSE LET item == Head(pat)
             most == IF item.max = Unbounded THEN Len(s)
                     ELSE Min(item.max, Len(s))
         IN  \E n \in item.min..most :
                 /\ \A i \in 1..n : s[i] \in item.cls
                 /\ Matches(Tail(pat), SubSeq(s, n + 1, Len(s)))

\* re.is_match(&value): `^` and `$` anchor the pattern at both ends of the
\* text ($ is the end of the text only, not the place before a last "\n")
is_match(value) == Matches(DatePattern, value)

\* <DateInput as TryFrom<String>>::try_from
DateInput_try_from(value) ==
    IF is_match(value)
    THEN [tag |-> "Ok", value |-> value]
    ELSE [tag |-> "Err", error |-> "Invalid date format"]

\* the characters of the date strings that occur in request bodies
Chars(s) ==
    CASE s = "January 1, 2021" ->
             <<"J", "a", "n", "u", "a", "r", "y", " ", "1", ",", " ",
               "2", "0", "2", "1">>
      [] s = "March 2, 2021" ->
             <<"M", "a", "r", "c", "h", " ", "2", ",", " ",
               "2", "0", "2", "1">>
      [] s = "Ab 12, 1999" ->
             <<"A", "b", " ", "1", "2", ",", " ", "1", "9", "9", "9">>
      [] s = "jan 1 2021" ->
             <<"j", "a", "n", " ", "1", " ", "2", "0", "2", "1">>
      [] s = "32, 2021" -> <<"3", "2", ",", " ", "2", "0", "2", "1">>
      [] s = "" -> <<>>

\* the strings the calls of DateInput::try_from are drawn from: the four
\* strings above that the specification names, three well-formed dates, and
\* every string one character away from a well-formed one
DateExamples == {"January 1, 2021", "jan 1 2021", "32, 2021", ""}
DateBases == {"January 1, 2021", "March 2, 2021", "Ab 12, 1999"}
DateAlphabet == {"Z", "a", " ", "7", ",", "-", "\n", "U+0663"}
Substitutions(s) ==
    {[s EXCEPT ![i] = c] : i \in DOMAIN s, c \in DateAlphabet}
Deletions(s) ==
    {SubSeq(s, 1, i - 1) \o SubSeq(s, i + 1, Len(s)) : i \in DOMAIN s}
Insertions(s) ==
    {SubSeq(s, 1, i) \o <<c>> \o SubSeq(s, i + 1, Len(s)) :
        i \in 0..Len(s), c \in DateAlphabet}
DateStrings ==
    {Chars(s) : s \in DateExamples \cup DateBases}
    \cup UNION {Substitutions(Chars(b)) \cup Deletions(Chars(b))
                \cup Insertions(Chars(b)) : b \in DateBases}

\* DateInput::try_from is called with value
CallDateInput(value) ==
    /\ call = NoCall
    /\ call' = [arg |-> value, ret |-> [tag |-> "Pending"]]
    /\ UNCHANGED <<reqs, params, pc, ip, attempt, remaining, delay, waits,
                   driver, sessions, acquireErrs, mark, steps, everPaid,
                   result, faults, company_links, inflight, header,
                   submits, sub, email_inputs>>

\* the call returns
ReturnDateInput ==
    /\ call.ret.tag = "Pending"
    /\ call' = [call EXCEPT !.ret = DateInput_try_from(call.arg)]
    /\ UNCHANGED <<reqs, params, pc, ip, attempt, remaining, delay, waits,
                   driver, sessions, acquireErrs, mark, steps, everPaid,
                   result, faults, company_links, inflight, header,
                   submits, sub, email_inputs>>

\* no request; calls of DateInput::try_from on the strings of DateStrings
InitDate == InitWith({}, Requests, 0)

NextDate ==
    \/ \E value \in DateStrings : CallDateInput(value)
    \/ ReturnDateInput

SpecDate == InitDate /\ [][NextDate]_vars

-----------------------------------------------------------------------------
(* C16 *)

\* s is one uppercase letter, one or more lowercase letters, a space, one
\* or two digits, a comma and a space, and four digits, and nothing else
MonthDayYear(s) ==
    \E m \in 1..Len(s), d \in {1, 2} :
        /\ Len(s) = 1 + m + 1 + d + 2 + 4
        /\ s[1] \in Upper
        /\ \A i \in 2..(1 + m) : s[i] \in Lower
        /\ s[2 + m] = " "
        /\ \A i \in (3 + m)..(2 + m + d) : s[i] \in Digit
        /\ s[3 + m + d] = ","
        /\ s[4 + m + d] = " "
        /\ \A i \in (5 + m + d)..(8 + m + d) : s[i] \in Digit

\* the call returned
Returned_try_from == call.ret.tag \in {"Ok", "Err"}

\* C16: DateInput construction accepts a string if and only if it is one
\* uppercase letter, one or more lowercase letters, a space, one or two
\* digits, a comma and a space, and four digits, with nothing before or
\* after; "January 1, 2021" is accepted, "jan 1 2021", "32, 2021" and the
\* empty string are rejected; an accepted value is stored unchanged.
C16_DateInputFormat ==
    Returned_try_from =>
        /\ call.ret.tag = "Ok" <=> MonthDayYear(call.arg)
        /\ call.ret.tag = "Ok" => call.ret.value = call.arg
        /\ call.arg = Chars("January 1, 2021") => call.ret.tag = "Ok"
        /\ call.arg \in {Chars("jan 1 2021"), Chars("32, 2021"), Chars("")}
               => call.ret.tag = "Err"

\* a date with a two-digit day was accepted
C16_Witness ==
    /\ Returned_try_from /\ call.ret.tag = "Ok"
    /\ call.arg = Chars("Ab 12, 1999")

-----------------------------------------------------------------------------
(* The inbound side: router, auth layer, Json extractor *)

\* the handlers that take search criteria and drive a browser with them,
\* and the handlers of routes() that drive no browser; test_handler drives
\* one and takes no body
BrowserHandlers == {"get_payment_page_handler", "get_companies_list_handler"}
OtherHandlers ==
    {"health_check", "registries_get", "registry_request",
     "registry_request_by_name", "corporation_get"}

\* an Authorization header whose bytes are not visible ASCII
Opaque == "opaque"

\* HeaderValue::to_str().ok()
to_str(h) == IF h = Opaque THEN None ELSE h

\* the layer accepts every request that has the header
auth_AnyHeader(h) == IF h # None THEN "next" ELSE "UNAUTHORIZED"

\* auth: next.run(req) for the configured token, else Err(UNAUTHORIZED)
auth(h) ==
    LET auth_header == IF h = None THEN None ELSE to_str(h) IN
    IF auth_header # None /\ auth_header = Token
    THEN "next" ELSE "UNAUTHORIZED"

\* register_to_business_type_map: the business types listed per register
register_to_business_type_map ==
    [k \in {"Corporations", "BusinessNames", "Partnerships"} |->
        {"-- Any type --"}]

\* every combination is let through
SearchBusinessRegistryParams_try_from_NoCheck(value) ==
    [tag |-> "Ok", value |-> value]

\* <SearchBusinessRegistryParams as TryFrom<Shadow>>::try_from
SearchBusinessRegistryParams_try_from(value) ==
    LET register_type == value.register_type_key
        business_type == value.business_type_selection
        invalid ==
            /\ register_type \notin {"All", None}
            /\ register_type \in DOMAIN register_to_business_type_map
            /\ business_type # None
            /\ business_type # "-- Any type --"
            /\ business_type \notin register_to_business_type_map[register_type]
    IN  IF invalid
        THEN [tag |-> "Err", error |-> "Invalid business type"]
        ELSE [tag |-> "Ok",
              value |-> [query_word |-> value.query_word,
                         register_type_key |-> value.register_type_key,
                         business_type_selection |->
                             value.business_type_selection,
                         status_key |-> value.status_key,
                         date_input |-> value.date_input,
                         search_operator |-> value.search_operator,
                         end_date |-> value.end_date]]

\* a malformed date is taken as it comes
Shadow_deserialize_AnyDate(body) == [tag |-> "Ok", value |-> body]

\* deserializing the Shadow: each date that is there goes through
\* DateInput::try_from
Shadow_deserialize(body) ==
    IF \E d \in {body.date_input, body.end_date} :
           d # None /\ DateInput_try_from(Chars(d)).tag = "Err"
    THEN [tag |-> "Err", error |-> "Invalid date format"]
    ELSE [tag |-> "Ok", value |-> body]

\* serde's try_from = "SearchBusinessRegistryParamsShadow"
SearchBusinessRegistryParams_deserialize(body) ==
    LET shadow == Shadow_deserialize(body) IN
    IF shadow.tag = "Err" THEN shadow
    ELSE SearchBusinessRegistryParams_try_from(shadow.value)


\* the auth layer runs first, for every route: route_layer(from_fn(auth))
Auth(r) ==
    /\ pc[r] = "arrived"
    /\ IF auth(header[r]) = "next"
       THEN /\ pc' = [pc EXCEPT ![r] =
                   IF params[r].handler \in BrowserHandlers THEN "extract"
                   ELSE IF params[r].handler = "test_handler" THEN "start"
                   ELSE "other"]
            /\ UNCHANGED result
       ELSE /\ pc' = [pc EXCEPT ![r] = "unauthorized"]
            /\ result' = [result EXCEPT ![r] = [tag |-> "Unauthorized"]]
    /\ UNCHANGED <<reqs, params, ip, attempt, remaining, delay, waits,
                   driver, sessions, acquireErrs, mark, steps, everPaid,
                   faults, company_links, inflight, header, call,
                   submits, sub, email_inputs>>

\* the Json extractor of the two browser handlers builds the criteria of
\* the body; the handler is called only with Ok
JsonExtract(r) ==
    /\ pc[r] = "extract"
    /\ LET built == SearchBusinessRegistryParams_deserialize(
                        params[r].search_business_params)
       IN  IF built.tag = "Ok"
           THEN /\ pc' = [pc EXCEPT ![r] = "start"]
                /\ params' = [params EXCEPT
                       ![r].search_business_params = built.value]
                /\ UNCHANGED result
           ELSE /\ pc' = [pc EXCEPT ![r] = "rejected"]
                /\ result' = [result EXCEPT ![r] =
                       [tag |-> "Rejected", error |-> built.error]]
                /\ UNCHANGED params
    /\ UNCHANGED <<reqs, ip, attempt, remaining, delay, waits, driver,
                   sessions, acquireErrs, mark, steps, everPaid, faults,
                   company_links, inflight, header, call,
                   submits, sub, email_inputs>>

\* the criteria of the inbound bodies: every combination of the optional
\* fields under one register, every register with every kind of business
\* type, the remaining operators and statuses, and malformed dates
InboundCriteria ==
    [query_word : {"Acme"}, register_type_key : {"Corporations"},
     business_type_selection : {None, "-- Any type --"},
     status_key : {None, "Inactive"},
     date_input : {None, "January 1, 2021"},
     search_operator : {None, "On", "Between"},
     end_date : {None, "March 2, 2021"}]
    \cup
    [query_word : {"Acme"},
     register_type_key :
         {None, "All", "Corporations", "BusinessNames", "Partnerships"},
     business_type_selection :
         {None, "-- Any type --", "Sole Proprietorship"},
     status_key : {None}, date_input : {None}, search_operator : {None},
     end_date : {None}]
    \cup
    [query_word : {"Acme"}, register_type_key : {"All"},
     business_type_selection : {None},
     status_key : {"Active", "All"},
     date_input : {"January 1, 2021"},
     search_operator : {"Before", "FromOrOn"},
     end_date : {None}]
    \cup
    [query_word : {"Acme"}, register_type_key : {None},
     business_type_selection : {None}, status_key : {None},
     date_input : {None, "jan 1 2021", "32, 2021", ""},
     search_operator : {None},
     end_date : {None, "jan 1 2021"}]

\* the inbound requests: searches with every criteria above, a payment
\* request with a valid and with an invalid body, and the other routes
\* (their records carry criteria no handler of theirs reads)
InboundRequests ==
    [handler : {"get_companies_list_handler"},
     search_business_params : InboundCriteria,
     selected_company : {None}, search_product : {None}, email : {None}]
    \cup
    {b \in RequestBusinessProfileReportParams :
        b.search_product = "Document Copies"}
    \cup
    [handler : {"get_payment_page_handler"},
     search_business_params :
         {c \in InboundCriteria :
             c.date_input = "" \/ c.business_type_selection = "Sole Proprietorship"},
     selected_company : {"Acme Ltd"}, search_product : {"Profile Report"},
     email : {"a@example.com"}]
    \cup
    [handler : OtherHandlers \cup {"test_handler"},
     search_business_params :
         {c \in SearchBusinessRegistryParams : c.search_operator = None},
     selected_company : {None}, search_product : {None}, email : {None}]

\* the Authorization headers requests come with
Headers == {None, Token, "Bearer secret", "wrong", Opaque}

\* one request as the router receives it, with any header and body; the
\* environment injects at most MaxInboundFaults failures
InitInbound ==
    /\ reqs = {1}
    /\ params \in [reqs -> InboundRequests]
    /\ header \in [reqs -> Headers]
    /\ pc = [r \in reqs |-> "arrived"]
    /\ ip = [r \in reqs |-> 0]
    /\ attempt = [r \in reqs |-> 0]
    /\ remaining = [r \in reqs |-> MaxRetries]
    /\ delay = [r \in reqs |-> InitialDelay]
    /\ waits = [r \in reqs |-> <<>>]
    /\ driver = [r \in reqs |-> NoDriver]
    /\ sessions = [r \in reqs |-> <<>>]
    /\ acquireErrs = [r \in reqs |-> 0]
    /\ mark = [r \in reqs |-> 0]
    /\ steps = [r \in reqs |-> <<>>]
    /\ everPaid = [r \in reqs |-> FALSE]
    /\ result = [r \in reqs |-> NoResult]
    /\ faults = MaxInboundFaults
    /\ company_links = [r \in reqs |-> 0]
    /\ inflight = [r \in reqs |-> 0]
    /\ submits = [r \in reqs |-> 0]
    /\ sub = [r \in reqs |-> 0]
    /\ email_inputs = [r \in reqs |-> 0]
    /\ call = NoCall

-----------------------------------------------------------------------------
(* C20 *)

\* no handler ran for r: no extraction, no attempt, no session, no step, no
\* command, and none of the other handlers either
NoHandlerRan(r) ==
    /\ pc[r] \in {"arrived", "unauthorized"}
    /\ attempt[r] = 0 /\ sessions[r] = <<>> /\ steps[r] = <<>>
    /\ acquireErrs[r] = 0 /\ inflight[r] = 0
    /\ call = NoCall

\* C20: the token check gates every route: for a request whose
\* Authorization header is missing or differs from the configured token no
\* handler runs (no session, no outbound call) and the response is
\* Unauthorized; a request whose header equals the token is never answered
\* Unauthorized and goes on to its handler.
C20_TokenGatesEveryRoute ==
    \A r \in reqs :
        IF header[r] = None \/ header[r] # Token
        THEN /\ NoHandlerRan(r)
             /\ result[r].tag \in {"Running", "Unauthorized"}
             /\ pc[r] # "arrived" => result[r].tag = "Unauthorized"
        ELSE /\ pc[r] # "unauthorized"
             /\ result[r].tag # "Unauthorized"

\* a request of a browser route with the header "Bearer secret" was
\* answered Unauthorized
C20_Witness ==
    \E r \in reqs :
        /\ header[r] = "Bearer secret"
        /\ params[r].handler = "get_payment_page_handler"
        /\ pc[r] = "unauthorized" /\ result[r].tag = "Unauthorized"

-----------------------------------------------------------------------------
(* C14 *)

\* the Shadow of the criteria c exists: its dates are DateInputs
IsShadow(c) == Shadow_deserialize(c).tag = "Ok"

\* the register type of c is a specific one, a business type is there, it
\* is not the "any" sentinel and not in the allowed set of the register
Disallowed(c) ==
    /\ c.register_type_key # None /\ c.register_type_key # "All"
    /\ c.business_type_selection # None
    /\ c.business_type_selection # "-- Any type --"
    /\ c.business_type_selection
           \notin register_to_business_type_map[c.register_type_key]

\* C14: constructing the criteria from the Shadow of an inbound request
\* fails with a validation error exactly when the register type is a
\* specific non-All value and the business type is present, not the "any"
\* sentinel and not in the register's allowed set; in every other case it
\* succeeds and every field is carried over unchanged.
C14_ConstructionFailsExactlyWhenDisallowed ==
    [][\A r \in reqs :
          (/\ pc[r] = "extract" /\ pc'[r] # "extract"
           /\ IsShadow(params[r].search_business_params))
          => IF Disallowed(params[r].search_business_params)
             THEN pc'[r] = "rejected" /\ result'[r].tag = "Rejected"
             ELSE /\ pc'[r] = "start" /\ result'[r] = NoResult
                  /\ params'[r] = params[r]]_vars

\* a request for Partnerships of an unlisted business type was rejected
C14_Witness ==
    \E r \in reqs :
        /\ pc[r] = "rejected"
        /\ params[r].search_business_params.register_type_key = "Partnerships"
        /\ params[r].search_business_params.business_type_selection
               = "Sole Proprietorship"

-----------------------------------------------------------------------------
(* C15 *)

\* the criteria c fail validation: a date that is there is not of the form
\* Month Day, Year, or the business type is not allowed for the register
FailsValidation(c) ==
    \/ \E d \in {c.date_input, c.end_date} :
           d # None /\ ~MonthDayYear(Chars(d))
    \/ Disallowed(c)

\* C15: a request of a browser route that fails validation is rejected
\* before any browser interaction: the retry driver makes no attempt for
\* it, no session is acquired or asked for and no workflow step runs.
C15_RejectedBeforeAnyBrowserInteraction ==
    \A r \in reqs :
        (/\ params[r].handler \in BrowserHandlers
         /\ FailsValidation(params[r].search_business_params))
        => /\ pc[r] \in {"arrived", "unauthorized", "extract", "rejected"}
           /\ attempt[r] = 0 /\ remaining[r] = MaxRetries
           /\ sessions[r] = <<>> /\ acquireErrs[r] = 0
           /\ steps[r] = <<>> /\ waits[r] = <<>>
           /\ pc[r] = "rejected" => result[r].tag = "Rejected"

\* a rejected request: a payment request with an empty date, or a search
\* whose end date is malformed though no operator would use it
C15_Witness ==
    \E r \in reqs :
        /\ pc[r] = "rejected" /\ header[r] = Token
        /\ \/ /\ params[r].handler = "get_payment_page_handler"
              /\ params[r].search_business_params.date_input = ""
           \/ /\ params[r].handler = "get_companies_list_handler"
              /\ params[r].search_business_params.search_operator = None
              /\ params[r].search_business_params.end_date = "jan 1 2021"

-----------------------------------------------------------------------------
(* C13 *)

\* the criteria the handler of r was called with
Criteria(r) == params[r].search_business_params

\* the handler of r was called: its body passed the extractor
Called(r) ==
    pc[r] \notin {"arrived", "unauthorized", "extract", "rejected", "other"}

\* C13: the end-date field is touched if and only if search_operator is
\* Between: with no operator, or On, Before or FromOrOn, no attempt touches
\* it even when the criteria have an end_date; with Between the end date
\* (the empty string if there is none) is typed and directly after it the
\* Enter key is sent, both before the search is submitted.
C13_EndDateOnlyForBetween ==
    \A r \in reqs : Called(r) /\ params[r].handler \in BrowserHandlers =>
        IF Criteria(r).search_operator = "Between"
        THEN /\ Did(r, "Submitted") => Did(r, "EndDateEnterKey")
             /\ Did(r, "EndDateEnterKey") =>
                    /\ Did(r, "EndDateEntered")
                    /\ PosOf(r, "EndDateEnterKey")
                           = PosOf(r, "EndDateEntered") + 1
             /\ Did(r, "EndDateEntered") =>
                    /\ steps[r][PosOf(r, "EndDateEntered")].arg
                           = IF Criteria(r).end_date = None THEN ""
                             ELSE Criteria(r).end_date
                    /\ Count(r, "EndDateEntered") = 1
                    /\ ~Did(r, "Submitted")
                           \/ PosOf(r, "EndDateEntered") < PosOf(r, "Submitted")
        ELSE ~Did(r, "EndDateEntered") /\ ~Did(r, "EndDateEnterKey")

\* a search with the operator On and an end date was submitted
C13_Witness ==
    \E r \in reqs :
        /\ Called(r) /\ Did(r, "Submitted")
        /\ Criteria(r).search_operator = "On"
        /\ Criteria(r).end_date = "March 2, 2021"

-----------------------------------------------------------------------------
(* C12 *)

\* the steps of a search up to its submission, in the order of the claim
SearchOrder ==
    <<"Landing", "QueryEntered", "AdvancedPanelOpen", "RegisterTypeSelected",
      "BusinessTypeSelected", "StatusSelected", "DateEntered",
      "OperatorSelected", "EndDateEntered", "Submitted">>

\* the optional steps and the criteria field each of them depends on
OptionalField(r) ==
    [BusinessTypeSelected |-> Criteria(r).business_type_selection,
     StatusSelected |-> Criteria(r).status_key,
     DateEntered |-> Criteria(r).date_input,
     OperatorSelected |-> Criteria(r).search_operator]

\* the steps of SearchOrder every search performs
MandatorySearchSteps ==
    {"Landing", "QueryEntered", "AdvancedPanelOpen", "RegisterTypeSelected",
     "Submitted"}

\* C12: in every search attempt the steps run in the order Landing,
\* QueryEntered, AdvancedPanelOpen, RegisterTypeSelected,
\* BusinessTypeSelected, StatusSelected, DateEntered, OperatorSelected,
\* EndDateEntered, Submitted; each of the four optional steps is performed
\* if and only if its criteria field is present; and the result URL is
\* taken only after the page size of 200 rows was selected (the step that
\* ends with the wait for the re-rendering).
C12_SearchStepOrder ==
    \A r \in reqs : Called(r) /\ params[r].handler \in BrowserHandlers =>
        /\ \A i \in DOMAIN SearchOrder : Count(r, SearchOrder[i]) <= 1
        /\ \A i, j \in DOMAIN SearchOrder :
               (i < j /\ Did(r, SearchOrder[j])) =>
                   /\ Did(r, SearchOrder[i]) =>
                          PosOf(r, SearchOrder[i]) < PosOf(r, SearchOrder[j])
                   /\ SearchOrder[i] \in MandatorySearchSteps =>
                          Did(r, SearchOrder[i])
                   /\ SearchOrder[i] \in DOMAIN OptionalField(r) =>
                          (Did(r, SearchOrder[i])
                               <=> OptionalField(r)[SearchOrder[i]] # None)
        /\ \A o \in DOMAIN OptionalField(r) :
               Did(r, o) => OptionalField(r)[o] # None
        /\ Did(r, "ResultUrl") =>
               /\ Did(r, "Submitted") /\ Did(r, "PageSizeNormalized")
               /\ PosOf(r, "Submitted") < PosOf(r, "PageSizeNormalized")
               /\ PosOf(r, "PageSizeNormalized") + 1 = PosOf(r, "ResultUrl")
               /\ steps[r][PosOf(r, "PageSizeNormalized")].arg = "200"

\* the result URL of a search with a status and an operator, but no
\* business type and no date, was taken
C12_Witness ==
    \E r \in reqs :
        /\ Called(r) /\ Did(r, "ResultUrl")
        /\ Criteria(r).business_type_selection = None
        /\ Criteria(r).status_key # None
        /\ Criteria(r).date_input = None
        /\ Criteria(r).search_operator # None

-----------------------------------------------------------------------------
(* C29 *)

\* C29: within one payment request the payment button is clicked at most
\* once over all retry attempts: once an attempt has clicked it, no later
\* attempt of the request clicks it again, even if reading the current URL
\* or releasing the session fails afterwards.
C29_PaymentSubmittedAtMostOnce ==
    \A r \in reqs : submits[r] <= 1

-----------------------------------------------------------------------------
(* C22 *)

\* the handler's task is polled as long as it can take a step
SpecLive == Init /\ [][Next]_vars /\ WF_vars(Next)

\* C22: every search or payment request eventually returns to its caller,
\* whatever the page does.
C22_EveryRequestReturns ==
    <>(\A r \in reqs : Returned(r))

-----------------------------------------------------------------------------
(* Locator waits: query(..).wait(timeout, interval).first(), in seconds.   *)
(* The poller is the WebDriver client library's and is modelled from the    *)
(* contract of the Locator/Wait primitive: resolve repeatedly until a       *)
(* match exists or the timeout elapses.                                     *)

\* no request; functions are called on their own
InitCall == InitWith({}, Requests, 0)

\* what every step of a called function leaves alone: it works on call
CallOnly ==
    UNCHANGED <<reqs, params, pc, ip, attempt, remaining, delay, waits,
                driver, sessions, acquireErrs, mark, steps, everPaid,
                result, faults, company_links, inflight, header, submits,
                sub, email_inputs>>

Max(a, b) == IF a > b THEN a ELSE b

\* the function f is the one called
InCall(f) == call # NoCall /\ call.fn = f

\* the poller goes on to a poll that is due when the timeout has elapsed
tick_Late(c) ==
    LET k == c.cur_tries + 1
        due == Max(c.elapsed, k * c.interval)
    IN  IF due > c.timeout
        THEN [c EXCEPT !.cur_tries = k, !.elapsed = Max(c.elapsed, c.timeout),
                       !.ret = [tag |-> "NotFound"]]
        ELSE [c EXCEPT !.cur_tries = k, !.elapsed = due]

\* after a poll without a match the next poll is due cur_tries intervals
\* after the start, or at once when the poll took longer; the wait sleeps
\* until then, or until the timeout elapses if that comes first, and then
\* fails with NotFound
tick(c) ==
    LET k == c.cur_tries + 1
        due == Max(c.elapsed, k * c.interval)
    IN  IF due >= c.timeout
        THEN [c EXCEPT !.cur_tries = k, !.elapsed = Max(c.elapsed, c.timeout),
                       !.ret = [tag |-> "NotFound"]]
        ELSE [c EXCEPT !.cur_tries = k, !.elapsed = due]

\* .wait(timeout, interval).first() is awaited; polled is the time of the
\* latest poll and matched whether a poll has found an element
CallWaitFirst ==
    /\ call = NoCall
    /\ \E timeout \in {5, 20, 160} :
           call' = [fn |-> "first", timeout |-> timeout, interval |-> 1,
                    elapsed |-> 0, cur_tries |-> 0, polled |-> 0,
                    matched |-> FALSE, ret |-> [tag |-> "Pending"]]
    /\ CallOnly

\* a poll finds a matching element: the wait returns it
PollMatch ==
    /\ call.ret.tag = "Pending" /\ call.fn = "first"
    /\ \E d \in 0..MaxPollTime :
           call' = [call EXCEPT !.polled = call.elapsed,
                                !.elapsed = @ + d,
                                !.matched = TRUE,
                                !.ret = [tag |-> "Ok"]]
    /\ CallOnly

\* a poll finds no matching element
PollEmpty ==
    /\ call.ret.tag = "Pending" /\ call.fn = "first"
    /\ \E d \in 0..MaxPollTime :
           call' = tick([call EXCEPT !.polled = call.elapsed,
                                     !.elapsed = @ + d])
    /\ CallOnly

NextWait == CallWaitFirst \/ PollMatch \/ PollEmpty

SpecWait == InitCall /\ [][NextWait]_vars

-----------------------------------------------------------------------------
(* C21 *)

\* C21: a "first" locator wait with timeout T and interval P polls the page
\* repeatedly; it returns an element as soon as a poll finds one and fails
\* with NotFound if no poll within T finds one; it never succeeds when no
\* poll found an element, and no poll starts once T has elapsed: every poll
\* starts less than T after the start of the wait, and a wait that has not
\* ended has not reached T.
C21_FirstWaitWithinTimeout ==
    InCall("first") =>
        /\ call.ret.tag \in {"Pending", "Ok", "NotFound"}
        /\ call.matched <=> call.ret.tag = "Ok"
        /\ call.ret.tag = "NotFound" =>
               ~call.matched /\ call.elapsed >= call.timeout
        /\ call.polled < call.timeout
        /\ call.ret.tag = "Pending" =>
               /\ call.elapsed < call.timeout
               /\ call.elapsed >= call.cur_tries * call.interval

\* a wait of 5 s whose polls found nothing: the last of them started at
\* 4 s and took more than a second, and the wait failed with NotFound
C21_Witness ==
    /\ InCall("first") /\ call.timeout = 5
    /\ call.ret.tag = "NotFound" /\ call.polled = 4
    /\ call.cur_tries = 5 /\ call.elapsed > call.timeout

-----------------------------------------------------------------------------
(* Scrap::extract_data: the listing pages of the legacy search *)

\* the listings the site may serve: up to MaxPages pages, each with its
\* number of rows and with or without a link rel="next"
Sites ==
    UNION {[1..n -> {pg \in [rows : 0..MaxRows, malformed : 0..MaxRows,
                              next : BOOLEAN] : pg.malformed <= pg.rows}]
               : n \in 1..MaxPages}

\* the page the site serves for ?p=page_number: past the last page of the
\* listing it serves an empty page without a next link
PageOf(site, page_number) ==
    IF page_number < Len(site) THEN site[page_number + 1]
    ELSE [rows |-> 0, malformed |-> 0, next |-> FALSE]

\* the rows of page p as extract_data pushes them, in document order
RowsOf(site, p) == [i \in 1..PageOf(site, p).rows |-> <<p, i>>]

\* the cap is not looked at
WithinCap_Off(c) == TRUE

\* data.len() < num_of_records.unwrap_or(usize::MAX); the Option<usize> is
\* <<>> for None and <<n>> for Some(n)
WithinCap(c) ==
    IF c.num_of_records = <<>> THEN TRUE
    ELSE Len(c.data) < c.num_of_records[1]

\* the initial state of extract_data(corporate_name, num_of_records), the
\* site serving the listing of corporate_name
ExtractData(site, n) ==
    [fn |-> "extract_data", site |-> site, num_of_records |-> n,
     data |-> <<>>, page_number |-> 0, next_page |-> TRUE, fetched |-> <<>>,
     awaiting |-> "get", ret |-> [tag |-> "Pending"]]

\* extract_data(corporate_name, num_of_records) is called
CallExtractData ==
    /\ call = NoCall
    /\ \E site \in Sites, n \in {<<>>} \cup {<<k>> : k \in 0..MaxCap} :
           call' = ExtractData(site, n)
    /\ CallOnly

\* the loop condition holds and reqwest::get(&url).await answered
ExtractGet ==
    /\ call.ret.tag = "Pending" /\ call.fn = "extract_data"
    /\ call.awaiting = "get"
    /\ call.next_page /\ WithinCap(call)
    /\ call' = [call EXCEPT !.fetched = Append(@, call.page_number),
                            !.awaiting = "text"]
    /\ CallOnly

\* response.text().await answered: the rows of the page are pushed in
\* document order and the next link is looked for; a row with fewer than
\* four spans, without <a> or with a span without colon panics in its
\* index or unwrap
ExtractPage ==
    /\ call.ret.tag = "Pending" /\ call.fn = "extract_data"
    /\ call.awaiting = "text"
    /\ LET page == PageOf(call.site, call.page_number)
           rows == RowsOf(call.site, call.page_number)
       IN  call' = IF page.malformed > 0
                   THEN [call EXCEPT
                            !.data = @ \o SubSeq(rows, 1, page.malformed - 1),
                            !.ret = [tag |-> "Panic"]]
                   ELSE [call EXCEPT
                            !.data = @ \o rows,
                            !.next_page = page.next,
                            !.page_number = @ + 1,
                            !.awaiting = "get"]
    /\ CallOnly

\* reqwest::get(&url).await? or response.text().await? failed
ExtractPageErr ==
    /\ call.ret.tag = "Pending" /\ call.fn = "extract_data"
    /\ call.awaiting = "get" => call.next_page /\ WithinCap(call)
    /\ call' = [call EXCEPT
           !.fetched = IF call.awaiting = "get"
                       THEN Append(@, call.page_number) ELSE @,
           !.ret = [tag |-> "Err", error |-> "reqwest"]]
    /\ CallOnly

\* the loop condition is false: Ok(data)
ExtractReturn ==
    /\ call.ret.tag = "Pending" /\ call.fn = "extract_data"
    /\ call.awaiting = "get"
    /\ ~(call.next_page /\ WithinCap(call))
    /\ call' = [call EXCEPT !.ret = [tag |-> "Ok", value |-> call.data]]
    /\ CallOnly

NextListing ==
    \/ CallExtractData
    \/ ExtractGet
    \/ ExtractPage
    \/ ExtractPageErr
    \/ ExtractReturn

SpecListing == InitCall /\ [][NextListing]_vars

-----------------------------------------------------------------------------
(* C23 *)

\* the rows of the pages 0 .. k-1 of the site, in page order
RECURSIVE RowsUpTo(_, _)
RowsUpTo(site, k) ==
    IF k = 0 THEN <<>> ELSE RowsUpTo(site, k - 1) \o RowsOf(site, k - 1)

\* after the pages 0 .. k-1 the extraction has to stop: page k-1 had no
\* next link, or the rows collected have reached the cap
MustStop(c, k) ==
    \/ k > 0 /\ ~PageOf(c.site, k - 1).next
    \/ IF c.num_of_records = <<>> THEN FALSE
       ELSE Len(RowsUpTo(c.site, k)) >= c.num_of_records[1]

\* C23: listing extraction fetches the pages 0, 1, 2, .. in increasing
\* order, each once, and appends their rows in page order; it stops and
\* returns the rows collected after the first page without a next link or
\* once the rows collected have reached the cap, and fetches no page after
\* either holds.
C23_PagesInOrderUntilStop ==
    InCall("extract_data") =>
        /\ \A i \in DOMAIN call.fetched :
               call.fetched[i] = i - 1 /\ ~MustStop(call, i - 1)
        /\ Len(call.fetched) \in {call.page_number, call.page_number + 1}
        /\ call.ret.tag \in {"Pending", "Ok"} =>
               call.data = RowsUpTo(call.site, call.page_number)
        /\ call.ret.tag = "Ok" =>
               /\ Len(call.fetched) = call.page_number
               /\ MustStop(call, Len(call.fetched))
               /\ call.ret.value = call.data

\* a capped extraction that stopped by the cap after two pages, the second
\* of them with a next link
C23_Witness ==
    /\ InCall("extract_data") /\ call.ret.tag = "Ok"
    /\ call.num_of_records # <<>>
    /\ call.fetched = <<0, 1>> /\ PageOf(call.site, 1).next

-----------------------------------------------------------------------------
(* C30 *)

\* C30: called with a record cap n, listing extraction returns at most n
\* rows, for every number of rows per page.
C30_AtMostCapRows ==
    (InCall("extract_data") /\ call.ret.tag = "Ok"
         /\ call.num_of_records # <<>>)
    => Len(call.ret.value) <= call.num_of_records[1]

-----------------------------------------------------------------------------
(* The parsers of the legacy pages; a str is the sequence of its characters *)

\* the index of the first sep in s, 0 if there is none
RECURSIVE Find(_, _)
Find(s, sep) ==
    IF s = <<>> THEN 0
    ELSE IF Head(s) = sep THEN 1
    ELSE LET i == Find(Tail(s), sep) IN IF i = 0 THEN 0 ELSE i + 1

\* str::split(sep).collect(): the pieces between the separators
RECURSIVE Split(_, _)
Split(s, sep) ==
    LET i == Find(s, sep) IN
    IF i = 0 THEN <<s>>
    ELSE <<SubSeq(s, 1, i - 1)>> \o Split(SubSeq(s, i + 1, Len(s)), sep)

\* str::trim: the characters with the Unicode property White_Space leave
\* both ends; one outside ASCII is written with its code point
RECURSIVE Trim(_)
Trim(s) ==
    LET White_Space ==
            {" ", "\t", "\n", "\r", "\f", "U+000B", "U+0085", "U+00A0",
             "U+1680", "U+2000", "U+2001", "U+2002", "U+2003", "U+2004",
             "U+2005", "U+2006", "U+2007", "U+2008", "U+2009", "U+200A",
             "U+2028", "U+2029", "U+202F", "U+205F", "U+3000"}
    IN  IF s # <<>> /\ Head(s) \in White_Space THEN Trim(Tail(s))
        ELSE IF s # <<>> /\ s[Len(s)] \in White_Space
             THEN Trim(SubSeq(s, 1, Len(s) - 1))
        ELSE s

\* x.split(':').nth(1).unwrap().trim() of a span of a listing row
row_field(span) ==
    LET pieces == Split(span, ":") IN
    IF Len(pieces) < 2 THEN [tag |-> "Panic"]
    ELSE [tag |-> "Ok", value |-> Trim(pieces[2])]

\* the corporation_number of the row: corporation_number.replace('-', "")
corporation_number(span) ==
    LET field == row_field(span) IN
    IF field.tag = "Panic" THEN field
    ELSE [tag |-> "Ok",
          value |-> SelectSeq(field.value, LAMBDA c : c # "-")]

\* one <li> of the status row: text.split('-'), text[0] and text[1]
FilingItem(text) ==
    LET pieces == Split(text, "-") IN
    IF Len(pieces) < 2 THEN [tag |-> "Panic"]
    ELSE [tag |-> "Ok", key |-> pieces[1], value |-> pieces[2]]

\* one div.data-display-group of the annual-filings section
FilingRow(row) ==
    IF row.key # "Status of Annual Filings"
    THEN [tag |-> "Ok", key |-> row.key,
          value |-> [variant |-> "Left", value |-> row.text]]
    ELSE IF \E i \in DOMAIN row.items : FilingItem(row.items[i]).tag = "Panic"
    THEN [tag |-> "Panic"]
    ELSE [tag |-> "Ok", key |-> row.key,
          value |-> [variant |-> "Right",
                     value |-> [i \in DOMAIN row.items |->
                                   [key |-> FilingItem(row.items[i]).key,
                                    value |-> FilingItem(row.items[i]).value]]]]

\* CorporationDataExtract::extract_annual_filings_details
extract_annual_filings_details(rows) ==
    IF \E i \in DOMAIN rows : FilingRow(rows[i]).tag = "Panic"
    THEN [tag |-> "Panic"]
    ELSE [tag |-> "Ok",
          value |-> [i \in DOMAIN rows |->
                        [key |-> FilingRow(rows[i]).key,
                         value |-> FilingRow(rows[i]).value]]]

\* CorporationDataExtract::extract_corporation_data: the fetch, then the
\* five extractors, which take the sections 2, 3, 5, 7 and 8 with
\* nth(k).unwrap() and their elements with next().unwrap()
extract_corporation_data(page) ==
    IF \/ ~page.fetched
       \/ \E k \in {2, 3, 5, 7, 8} : k >= page.sections
       \/ ~page.elements
       \/ extract_annual_filings_details(page.filings).tag = "Panic"
    THEN [tag |-> "Panic"]
    ELSE [tag |-> "Ok", status |-> 200,
          annual_filings_details |->
              extract_annual_filings_details(page.filings).value]

\* the function f applied to arg
Apply(f, arg) ==
    CASE f = "row_field" -> row_field(arg)
      [] f = "corporation_number" -> corporation_number(arg)
      [] f = "extract_annual_filings_details" ->
             extract_annual_filings_details(arg)
      [] f = "extract_corporation_data" -> extract_corporation_data(arg)

\* the sequences of at most n elements of S
SeqUpTo(S, n) == UNION {[1..k -> S] : k \in 0..n}

\* the spans of listing rows: every line of at most MaxLineLen characters
Spans == SeqUpTo({"S", ":", " ", "\t", "-", "7"}, MaxLineLen)

\* the annual-filings sections: rows with a plain value, and status rows
\* whose items have one hyphen, none, or two
FilingTables ==
    LET items == {<<"2", "-", "F">>, <<"2", "F">>, <<"2", "-", "F", "-", "x">>}
        row == [key : {"Annual Meeting Date"}, text : {"2021"}, items : {<<>>}]
               \cup [key : {"Status of Annual Filings"}, text : {""},
                     items : SeqUpTo(items, MaxItems)]
    IN  SeqUpTo(row, MaxFilingRows)

\* the detail pages: fetched or not, with 0 .. MaxSections sections, their
\* elements all there or not
DetailPages ==
    [fetched : BOOLEAN, sections : 0..MaxSections, elements : BOOLEAN,
     filings : {t \in FilingTables : Len(t) = 1}]

\* f is called on its own with one of args
CallPure(f, args) ==
    /\ call = NoCall
    /\ \E arg \in args :
           call' = [fn |-> f, arg |-> arg, awaits |-> 0,
                    ret |-> [tag |-> "Pending"]]
    /\ CallOnly

\* reqwest::get(&url).await.unwrap(), then response.text().await.unwrap():
\* each of the two awaits answers, or fails and panics; on a page that is
\* not fetched one of them fails
FetchDetail ==
    /\ InCall("extract_corporation_data") /\ call.ret.tag = "Pending"
    /\ call.awaits < 2
    /\ \E ok \in BOOLEAN :
           /\ IF ok THEN call.arg.fetched \/ call.awaits = 0
              ELSE ~call.arg.fetched
           /\ call' = IF ok THEN [call EXCEPT !.awaits = @ + 1]
                      ELSE [call EXCEPT !.ret = [tag |-> "Panic"]]
    /\ CallOnly

\* the call returns, or panics; extract_corporation_data runs its
\* extractors once both awaits have answered
ReturnPure ==
    /\ call.ret.tag = "Pending"
    /\ call.fn \in {"row_field", "corporation_number",
                    "extract_annual_filings_details",
                    "extract_corporation_data"}
    /\ call.fn = "extract_corporation_data" => call.awaits = 2
    /\ call' = [call EXCEPT !.ret = Apply(call.fn, call.arg)]
    /\ CallOnly

NextParse ==
    \/ CallPure("row_field", Spans)
    \/ CallPure("corporation_number", Spans)
    \/ CallPure("extract_annual_filings_details", FilingTables)
    \/ CallPure("extract_corporation_data", DetailPages)
    \/ FetchDetail
    \/ ReturnPure

SpecParse == InitCall /\ [][NextParse]_vars

-----------------------------------------------------------------------------
(* C24 *)

\* the text of s after its first sep (s has one), as the property words it;
\* the code takes split(sep).nth(1), the text up to the second sep
AfterFirst(s, sep) ==
    LET i == CHOOSE i \in DOMAIN s :
                 s[i] = sep /\ \A j \in 1..(i - 1) : s[j] # sep
    IN  SubSeq(s, i + 1, Len(s))

\* the call of f returned, or ended in a panic
Ended(f) == InCall(f) /\ call.ret.tag # "Pending"

\* C24: for every listing row the parsed status, corporation number and
\* business number are the text after the first colon of their line with
\* the surrounding whitespace removed, and the corporation number is that
\* text without its hyphens, every other character kept in order.
C24_FieldIsTextAfterFirstColon ==
    /\ (Ended("row_field") /\ \E i \in DOMAIN call.arg : call.arg[i] = ":")
       => /\ call.ret.tag = "Ok"
          /\ call.ret.value = Trim(AfterFirst(call.arg, ":"))
    /\ (Ended("corporation_number")
            /\ \E i \in DOMAIN call.arg : call.arg[i] = ":")
       => /\ call.ret.tag = "Ok"
          /\ \A i \in DOMAIN call.ret.value : call.ret.value[i] # "-"
          /\ call.ret.value =
                 SelectSeq(Trim(AfterFirst(call.arg, ":")),
                           LAMBDA c : c # "-")

-----------------------------------------------------------------------------
(* C25 *)

\* the item has a hyphen
Hyphenated(item) == \E i \in DOMAIN item : item[i] = "-"

\* C25: in the annual-filings section every row whose label is not
\* "Status of Annual Filings" yields the plain-value variant and the row
\* with that label yields the list-of-pairs variant, with exactly one pair
\* per list item, in item order, the label being the text before the
\* hyphen and the value the text after it; one entry per row, in row order.
C25_FilingsVariants ==
    Ended("extract_annual_filings_details") =>
        /\ call.ret.tag = "Ok"
        /\ Len(call.ret.value) = Len(call.arg)
        /\ \A i \in DOMAIN call.arg :
               LET row == call.arg[i]
                   out == call.ret.value[i]
               IN  /\ out.key = row.key
                   /\ IF row.key # "Status of Annual Filings"
                      THEN out.value = [variant |-> "Left", value |-> row.text]
                      ELSE /\ out.value.variant = "Right"
                           /\ Len(out.value.value) = Len(row.items)
                           /\ \A j \in DOMAIN row.items :
                                  Hyphenated(row.items[j]) =>
                                      /\ out.value.value[j].key
                                             = Split(row.items[j], "-")[1]
                                      /\ out.value.value[j].value
                                             = AfterFirst(row.items[j], "-")

-----------------------------------------------------------------------------
(* C26 *)

\* C26: a list item without a hyphen in the "Status of Annual Filings" row
\* is silently ignored: extraction does not fail, and the other items and
\* rows are still extracted and returned.
C26_ItemWithoutHyphenIgnored ==
    (/\ Ended("extract_annual_filings_details")
     /\ \E i \in DOMAIN call.arg, j \in 1..MaxItems :
            /\ j \in DOMAIN call.arg[i].items
            /\ ~Hyphenated(call.arg[i].items[j]))
    => /\ call.ret.tag = "Ok"
       /\ Len(call.ret.value) = Len(call.arg)
       /\ \A i \in DOMAIN call.arg :
              call.arg[i].key = "Status of Annual Filings" =>
                  call.ret.value[i].value.value
                      = [j \in 1..Len(SelectSeq(call.arg[i].items, Hyphenated))
                            |-> [key |-> FilingItem(SelectSeq(
                                     call.arg[i].items, Hyphenated)[j]).key,
                                 value |-> FilingItem(SelectSeq(
                                     call.arg[i].items, Hyphenated)[j]).value]]

-----------------------------------------------------------------------------
(* C27 *)

\* C27: when a fetched detail page lacks an expected section or element
\* (fewer than nine div.col-sm-12 sections, say), detail extraction ends
\* with an extraction error that is returned to the caller as a failure
\* response, and no record is returned.
C27_MissingSectionIsErrorResponse ==
    (/\ Ended("extract_corporation_data") /\ call.arg.fetched
     /\ call.arg.sections < 9 \/ ~call.arg.elements)
    => call.ret.tag = "Err"

-----------------------------------------------------------------------------
(* request_registry: the relay of four calls to the REST backend *)

\* a JSON body: an object with its members (the set of its <<key, value>>
\* pairs), an array with its items, or a text that is no JSON
Json(type, members, items) ==
    [type |-> type, members |-> members, items |-> items]

\* what the backend may answer to a call: no answer at all (send() returns
\* Err), or an answer with a success or an error status and a body
Answers(bodies) ==
    [kind : {"Err"}, success : {FALSE}, body : {Json("text", {}, <<>>)}]
    \cup [kind : {"Response"}, success : BOOLEAN, body : bodies]

\* the bodies the code reads without looking into them
AnyBody == {Json("object", {}, <<>>)}

\* the bodies of GET /cntcts: an object with an id, one without, no JSON
ContactBodies ==
    {Json("object", {<<"id", "c-17">>}, <<>>),
     Json("object", {<<"name", "x">>}, <<>>),
     Json("text", {}, <<>>)}

\* the bodies of GET /dcmnts: arrays of up to MaxSummaries summaries, and an
\* object, which is no Vec<Value>
SummaryBodies ==
    {Json("array", {}, items) :
        items \in SeqUpTo({{<<"id", "d1">>, <<"sourceRequest", "s">>,
                            <<"documentType", "t">>},
                           {<<"id", "d2">>, <<"documentType", "t">>}},
                          MaxSummaries)}
    \cup {Json("object", {<<"a", "1">>}, <<>>)}

data_parser_KeepType(data) ==
    [i \in DOMAIN data |-> {kv \in data[i] : kv[1] # "sourceRequest"}]

\* Scrap::data_parser: sourceRequest and documentType leave every summary
data_parser(data) ==
    [i \in DOMAIN data |->
        {kv \in data[i] : kv[1] \notin {"sourceRequest", "documentType"}}]

\* the call named has returned ("Ok", "Err" or "Panic"): `?` ends the relay
\* unless it is "Ok", and Ok(()) ends it after the fourth call
Finish(c, returned) ==
    [c EXCEPT
        !.sent[Len(c.sent)].returned = returned,
        !.step = @ + 1,
        !.awaiting = "send",
        !.ret = IF returned = "Ok" /\ c.step < 4
                THEN @ ELSE [tag |-> returned]]

\* send().await? of the call named with payload is answered: Err when the
\* backend gave no answer, whatever the status; else the body is awaited
Issue(name, payload, answer) ==
    LET c == [call EXCEPT
                 !.sent = Append(@, [call |-> name, payload |-> payload,
                                     answer |-> answer,
                                     returned |-> "Pending"]),
                 !.awaiting = "body"]
    IN  IF answer.kind = "Err" THEN Finish(c, "Err") ELSE c

\* the answer whose body the relay awaits
Answer == call.sent[Len(call.sent)].answer

\* the initial state of request_registry(client, corporate_number, ..)
Scrap(corporate_number) ==
    [fn |-> "request_registry", corporate_number |-> corporate_number,
     contact |-> "", summarize_data |-> <<>>, step |-> 1,
     awaiting |-> "send", sent |-> <<>>, ret |-> [tag |-> "Pending"]]

\* request_registry(client, corporate_number, ..) is called
CallRequestRegistry ==
    /\ call = NoCall
    /\ call' = Scrap("1234567")
    /\ CallOnly

\* scrap.create_request(&client).await?: send().await?, the status is
\* printed and not tested, then text().await?
create_request ==
    /\ InCall("request_registry") /\ call.ret.tag = "Pending"
    /\ call.step = 1
    /\ IF call.awaiting = "send"
       THEN \E answer \in Answers(AnyBody) :
                call' = Issue("create_request", "contact", answer)
       ELSE \E read \in BOOLEAN :
                call' = Finish(call, IF read THEN "Ok" ELSE "Err")
    /\ CallOnly

\* scrap.get_request(&client).await?: send().await?, then text().await?,
\* then the id of the body, "" if it has none; a body that is no JSON
\* panics in from_str(..).unwrap()
get_request ==
    /\ InCall("request_registry") /\ call.ret.tag = "Pending"
    /\ call.step = 2
    /\ IF call.awaiting = "send"
       THEN \E answer \in Answers(ContactBodies) :
                call' = Issue("get_request", "contact", answer)
       ELSE \E read \in BOOLEAN :
                call' =
                    IF ~read THEN Finish(call, "Err")
                    ELSE IF Answer.body.type = "text"
                    THEN Finish(call, "Panic")
                    ELSE [Finish(call, "Ok") EXCEPT !.contact =
                             IF <<"id", "c-17">> \in Answer.body.members
                             THEN "c-17" ELSE ""]
    /\ CallOnly

\* scrap.summary_data(&client).await?: send().await?; on a success status
\* json::<Vec<Value>>().await?, which fails on a body that cannot be read
\* or is no array, then data_parser; an error status is printed and
\* nothing is set
summary_data ==
    /\ InCall("request_registry") /\ call.ret.tag = "Pending"
    /\ call.step = 3
    /\ IF call.awaiting = "send"
       THEN \E answer \in Answers(SummaryBodies) :
                LET c == Issue("summary_data", call.corporate_number, answer)
                IN  call' = IF answer.kind = "Response" /\ ~answer.success
                            THEN Finish(c, "Ok") ELSE c
       ELSE \E read \in BOOLEAN :
                call' =
                    IF read /\ Answer.body.type = "array"
                    THEN [Finish(call, "Ok") EXCEPT !.summarize_data =
                             data_parser(Answer.body.items)]
                    ELSE Finish(call, "Err")
    /\ CallOnly

\* scrap.table_pass(&client).await?: send().await?, the status is printed,
\* then text().await?, then Ok(())
table_pass ==
    /\ InCall("request_registry") /\ call.ret.tag = "Pending"
    /\ call.step = 4
    /\ IF call.awaiting = "send"
       THEN \E answer \in Answers(AnyBody) :
                call' = Issue("table_pass",
                              [corporation |-> call.corporate_number,
                               summaries |-> call.summarize_data,
                               contact |-> call.contact], answer)
       ELSE \E read \in BOOLEAN :
                call' = Finish(call, IF read THEN "Ok" ELSE "Err")
    /\ CallOnly

NextRelay ==
    \/ CallRequestRegistry
    \/ create_request
    \/ get_request
    \/ summary_data
    \/ table_pass

SpecRelay == InitCall /\ [][NextRelay]_vars

-----------------------------------------------------------------------------
(* The handlers of routes() that drive no browser *)

\* what a step of these handlers leaves alone
HandlerOnly ==
    UNCHANGED <<reqs, params, ip, attempt, remaining, delay, waits, driver,
                sessions, acquireErrs, mark, steps, everPaid, faults,
                company_links, inflight, header, submits, sub, email_inputs>>

\* the call of the handler has ended with tag: Ok((StatusCode::OK, Json(..))),
\* `?` on an Err, or a panic that ends the handler's task
Respond(r, tag) ==
    /\ pc' = [pc EXCEPT ![r] = IF tag = "Panic" THEN "panicked" ELSE "done"]
    /\ result' = [result EXCEPT ![r] =
           CASE tag = "Ok" ->
                    [tag |-> "Ok", status |-> 200, attempt |-> attempt[r]]
             [] tag = "Err" -> [tag |-> "Err", error |-> Error(r, "reqwest")]
             [] OTHER -> @]

\* the handler of r calls callee and awaits it
Await(r, callee) ==
    /\ call' = callee
    /\ pc' = [pc EXCEPT ![r] = "call"]
    /\ UNCHANGED result

\* the Json extractor found no required field in the body: the handler is
\* not called
Reject(r) ==
    /\ pc' = [pc EXCEPT ![r] = "rejected"]
    /\ result' = [result EXCEPT ![r] =
           [tag |-> "Rejected", error |-> "missing field"]]
    /\ UNCHANGED call

\* the call r awaits has ended
Answered(r) == pc[r] = "call" /\ call.ret.tag # "Pending"

\* health_check: no await, (StatusCode::OK, "Healthy!")
health_check(r) ==
    /\ pc[r] = "other" /\ params[r].handler = "health_check"
    /\ Respond(r, "Ok")
    /\ UNCHANGED call
    /\ HandlerOnly

\* registries_get: Scrap::extract_data(&search_keyword, None).await?, then
\* Ok((StatusCode::OK, Json(data)))
registries_get(r) ==
    /\ params[r].handler = "registries_get"
    /\ IF pc[r] = "other"
       THEN \E site \in Sites : Await(r, ExtractData(site, <<>>))
       ELSE Answered(r) /\ Respond(r, call.ret.tag) /\ UNCHANGED call
    /\ HandlerOnly

\* corporation_get: extract_corporation_data(gen_url(id)).await
corporation_get(r) ==
    /\ params[r].handler = "corporation_get"
    /\ IF pc[r] = "other"
       THEN \E page \in DetailPages :
                Await(r, [fn |-> "extract_corporation_data", arg |-> page,
                          awaits |-> 0, ret |-> [tag |-> "Pending"]])
       ELSE Answered(r) /\ Respond(r, call.ret.tag) /\ UNCHANGED call
    /\ HandlerOnly

\* registry_request: Json<RegistryRequest> needs corporate_number in the
\* body; request_registry(..).await?, then Ok((StatusCode::OK, "success"))
registry_request(r) ==
    /\ params[r].handler = "registry_request"
    /\ IF pc[r] = "other"
       THEN \E corporate_number \in {None, "1234567"} :
                IF corporate_number = None THEN Reject(r)
                ELSE Await(r, Scrap(corporate_number))
       ELSE Answered(r) /\ Respond(r, call.ret.tag) /\ UNCHANGED call
    /\ HandlerOnly

\* registry_request_by_name: Json<RegistryRequestByName> needs
\* search_keyword in the body; extract_data(&search_keyword, Some(1)).await?,
\* then data[0], which panics on a listing without row, then
\* request_registry with the corporation number of that row
registry_request_by_name(r) ==
    /\ params[r].handler = "registry_request_by_name"
    /\ IF pc[r] = "other"
       THEN \E search_keyword \in {None, "Acme"}, site \in Sites :
                IF search_keyword = None THEN Reject(r)
                ELSE Await(r, ExtractData(site, <<1>>))
       ELSE /\ Answered(r)
            /\ IF call.fn = "extract_data" /\ call.ret.tag = "Ok"
               THEN IF call.ret.value = <<>>
                    THEN Respond(r, "Panic") /\ UNCHANGED call
                    ELSE Await(r, Scrap(ToString(call.ret.value[1])))
               ELSE Respond(r, call.ret.tag) /\ UNCHANGED call
    /\ HandlerOnly

NextInbound ==
    \/ \E r \in reqs : Auth(r)
    \/ \E r \in reqs : JsonExtract(r)
    \/ \E r \in reqs : health_check(r)
    \/ \E r \in reqs : registries_get(r)
    \/ \E r \in reqs : corporation_get(r)
    \/ \E r \in reqs : registry_request(r)
    \/ \E r \in reqs : registry_request_by_name(r)
    \/ ExtractGet
    \/ ExtractPage
    \/ ExtractPageErr
    \/ ExtractReturn
    \/ FetchDetail
    \/ ReturnPure
    \/ create_request
    \/ get_request
    \/ summary_data
    \/ table_pass
    \/ Next

SpecInbound == InitInbound /\ [][NextInbound]_vars

-----------------------------------------------------------------------------
(* C28 *)

\* C28: the relay issues its calls in the order create contact, query
\* contact id, fetch document summaries, submit copy request, each at most
\* once and only after the one before returned without error, so that a
\* call that failed is the last one issued; the copy request carries the
\* corporate number of the request, the id of the answer to the query call,
\* and the summaries of the answer to the fetch call, each without its
\* sourceRequest and documentType fields.
C28_RelayOrderAndState ==
    InCall("request_registry") =>
        /\ Len(call.sent) <= 4
        /\ \A i \in DOMAIN call.sent :
               /\ call.sent[i].call
                      = <<"create_request", "get_request", "summary_data",
                          "table_pass">>[i]
               /\ i < Len(call.sent) => call.sent[i].returned = "Ok"
        /\ Len(call.sent) = 4 =>
               LET copy == call.sent[4].payload
                   query == call.sent[2].answer
                   fetch == call.sent[3].answer
               IN  /\ copy.corporation = call.corporate_number
                   /\ \A kv \in query.body.members :
                          kv[1] = "id" => copy.contact = kv[2]
                   /\ fetch.success =>
                          /\ Len(copy.summaries) = Len(fetch.body.items)
                          /\ \A i \in DOMAIN fetch.body.items :
                                 copy.summaries[i]
                                     = {kv \in fetch.body.items[i] :
                                           /\ kv[1] # "sourceRequest"
                                           /\ kv[1] # "documentType"}

\* the copy request was submitted with a contact id and with summaries that
\* came with both fields
C28_Witness ==
    /\ InCall("request_registry")
    /\ call.ret.tag = "Ok"
    /\ Len(call.sent) = 4
    /\ call.sent[4].payload.contact = "c-17"
    /\ call.sent[3].answer.success
    /\ \E i \in DOMAIN call.sent[4].payload.summaries :
           /\ i \in DOMAIN call.sent[3].answer.body.items
           /\ <<"sourceRequest", "s">> \in call.sent[3].answer.body.items[i]
           /\ call.sent[4].payload.summaries[i] = {<<"id", "d1">>}

-----------------------------------------------------------------------------
(* C31 *)

\* C31: in the relay the copy request is submitted only after the create
\* contact, query contact and document summary calls each answered with a
\* success HTTP status; when one of them answers with another status, the
\* relay ends in an error with that call and no copy request is submitted.
C31_CopyOnlyAfterSuccessStatuses ==
    InCall("request_registry") =>
        \A i \in DOMAIN call.sent :
            (/\ i <= 3
             /\ call.sent[i].returned # "Pending"
             /\ call.sent[i].answer.kind = "Response"
             /\ ~call.sent[i].answer.success) =>
                /\ Len(call.sent) = i
                /\ call.ret.tag = "Err"

-----------------------------------------------------------------------------
(* C32 *)

\* C32: a search whose criteria have no register type skips the step
\* RegisterTypeSelected: it goes on from AdvancedPanelOpen to the next
\* applicable step and targets no register option.
C32_RegisterTypeSkippedWhenAbsent ==
    \A r \in reqs :
        (/\ Called(r)
         /\ params[r].handler \in BrowserHandlers
         /\ Criteria(r).register_type_key = None) =>
            ~Did(r, "RegisterTypeSelected")

====
